---- MODULE Spec2Model ----
(***************************************************************************)
(* A model of the BujoNow entry store (src/src/journal_manager.py): one    *)
(* JSON document per calendar date, kept in a directory tree               *)
(* <journal_dir>/<YYYY-MM>/<YYYY-MM-DD>.json, with the operations          *)
(* create_entry, get_entry, update_entry, record_entry, search_entries.    *)
(*                                                                         *)
(* Conventions of the model                                                *)
(*   - a Python str is a sequence of one-character strings;                *)
(*   - a Python list is a sequence; a dict is a function on its keys;      *)
(*   - an Optional argument is a sequence of length 0 (None) or 1;         *)
(*   - the ai_summary value is written as its JSON token: "[]" is the      *)
(*     empty list, "" the empty string, anything else a non-empty string;  *)
(*   - a datetime is a record [y, m, d, h, us]: year, month, day, hour     *)
(*     and the rest of the time of day in microseconds.                    *)
(***************************************************************************)
EXTENDS Integers, Sequences, FiniteSets, TLC

VARIABLES
    files,   \* the journal directory: path -> file content
    now,     \* the wall clock read by datetime.now()
    call,    \* the last operation called, with its arguments
    ret,     \* what that operation returned
    prev,    \* the operation called before the last one, and its return
    written, \* the calendar days some operation has written a file for
    nops,    \* number of operations called so far
    procs,   \* concurrent writers: name -> position and local variables
    sessions,\* auth_interface.SESSION_STATES: session id -> issued state
    users,   \* the user store: user id -> the content of user_data.json
    dirs     \* the directories that exist under users_dir

vars == <<files, now, call, ret, prev, written, nops, procs, sessions, users, dirs>>

\* the state outside the journal directory and the bookkeeping
others == <<procs, sessions, users, dirs>>

-----------------------------------------------------------------------------
(* Bounds of the model *)

\* operations per behaviour of the store specification
MaxOps == 3

\* operations per behaviour of the frame specification
MaxFrameOps == 1

\* operations per behaviour of the user specification
MaxUserOps == 2

\* operations per behaviour of the login specification
MaxAuthOps == 3

-----------------------------------------------------------------------------
(* Python values *)

None == <<>>
Some(v) == <<v>>
IsNone(o) == o = <<>>

\* the empty dict / the empty list / the empty str
EmptyDict == <<>>

\* bool(x) of an Optional list or str: None and the empty sequence are falsy
Truthy(o) == o # <<>> /\ o[1] # <<>>

\* `x or []` of an Optional list
OrEmptyList(o) == IF Truthy(o) THEN o[1] ELSE <<>>

\* bool(x) of an ai_summary token (None is the Optional's <<>>)
SummaryTruthy(o) == o # <<>> /\ o[1] \notin {"", "[]"}

\* `ai_summary or []`
SummaryOrEmptyList(o) == IF SummaryTruthy(o) THEN o[1] ELSE "[]"

\* a variant of DictUpdate: a key the old mapping has keeps its old value
DictUpdateOldWins(old, new) ==
    [k \in (DOMAIN old) \cup (DOMAIN new) |->
        IF k \in DOMAIN old THEN old[k] ELSE new[k]]

\* dict.update: keys of new overwrite, the other keys of old are kept
DictUpdate(old, new) ==
    [k \in (DOMAIN old) \cup (DOMAIN new) |->
        IF k \in DOMAIN new THEN new[k] ELSE old[k]]

-----------------------------------------------------------------------------
(* Strings *)

IsSpace(c) == c \in {" ", "\n", "\t"}

\* str.split() without arguments: the maximal runs of non-whitespace
\* characters, scanned left to right; cur is the token being read.
RECURSIVE SplitFrom(_, _, _)
SplitFrom(s, i, cur) ==
    IF i > Len(s)
    THEN IF cur = <<>> THEN <<>> ELSE <<cur>>
    ELSE IF IsSpace(s[i])
         THEN IF cur = <<>>
              THEN SplitFrom(s, i + 1, <<>>)
              ELSE <<cur>> \o SplitFrom(s, i + 1, <<>>)
         ELSE SplitFrom(s, i + 1, Append(cur, s[i]))

Split(s) == SplitFrom(s, 1, <<>>)

\* str.split(sep) for a one-character separator: always at least one field
RECURSIVE SplitOn(_, _, _, _)
SplitOn(s, sep, i, cur) ==
    IF i > Len(s) THEN <<cur>>
    ELSE IF s[i] = sep
         THEN <<cur>> \o SplitOn(s, sep, i + 1, <<>>)
         ELSE SplitOn(s, sep, i + 1, Append(cur, s[i]))

\* a variant of WordCount: text.split(" "), which counts the empty strings
\* between two spaces and does not split at a newline or a tab
WordCountBySpace(text) == Len(SplitOn(text, " ", 1, <<>>))

\* len(text.split())
WordCount(text) == Len(Split(text))

\* str.replace(c, repl) for a one-character pattern c
RECURSIVE Replace(_, _, _)
Replace(s, c, repl) ==
    IF s = <<>> THEN <<>>
    ELSE (IF Head(s) = c THEN repl ELSE <<Head(s)>>) \o Replace(Tail(s), c, repl)

DigitChars == <<"0", "1", "2", "3", "4", "5", "6", "7", "8", "9">>

IsDigit(c) == \E i \in 1..10 : DigitChars[i] = c

DigitValue(c) == (CHOOSE i \in 1..10 : DigitChars[i] = c) - 1

\* code point of the characters a date string is made of
Ord(c) == IF c = "-" THEN 45 ELSE 48 + DigitValue(c)

\* Python's str < str: lexicographic by code point, a proper prefix is less
RECURSIVE StrLess(_, _)
StrLess(s, t) ==
    IF t = <<>> THEN FALSE
    ELSE IF s = <<>> THEN TRUE
    ELSE IF Ord(Head(s)) # Ord(Head(t)) THEN Ord(Head(s)) < Ord(Head(t))
    ELSE StrLess(Tail(s), Tail(t))

\* the decimal digits of n, zero-padded to width w (strftime's %Y %m %d)
RECURSIVE ZeroPad(_, _)
ZeroPad(n, w) ==
    IF w = 0 THEN <<>>
    ELSE ZeroPad(n \div 10, w - 1) \o <<DigitChars[(n % 10) + 1]>>

\* int() of a digit string
RECURSIVE ToInt(_)
ToInt(s) ==
    IF s = <<>> THEN 0
    ELSE 10 * ToInt(SubSeq(s, 1, Len(s) - 1)) + DigitValue(s[Len(s)])

-----------------------------------------------------------------------------
(* Dates *)

\* the calendar days of the model: two months, a first of the month, and
\* the days 2 and 10 of one month
CalendarDays == {<<2024, 12, 31>>, <<2025, 1, 1>>, <<2025, 1, 2>>, <<2025, 1, 10>>}

\* hours of the day: midnight and noon
Hours == {0, 12}

Datetimes == {[y |-> c[1], m |-> c[2], d |-> c[3], h |-> hr, us |-> 0] :
                c \in CalendarDays, hr \in Hours}

\* datetime <= datetime
DtLeq(a, b) ==
    \/ a.y < b.y
    \/ a.y = b.y /\ a.m < b.m
    \/ a.y = b.y /\ a.m = b.m /\ a.d < b.d
    \/ a.y = b.y /\ a.m = b.m /\ a.d = b.d /\ a.h < b.h
    \/ a.y = b.y /\ a.m = b.m /\ a.d = b.d /\ a.h = b.h /\ a.us <= b.us

\* date.strftime('%Y-%m')
StrfYearMonth(dt) == ZeroPad(dt.y, 4) \o <<"-">> \o ZeroPad(dt.m, 2)

\* date.strftime('%Y-%m-%d')
StrfDate(dt) == StrfYearMonth(dt) \o <<"-">> \o ZeroPad(dt.d, 2)

\* datetime.isoformat(): the date, the hour and the microseconds
IsoFormat(dt) ==
    StrfDate(dt) \o <<"T">> \o ZeroPad(dt.h, 2) \o <<".">> \o ZeroPad(dt.us, 6)

\* whether datetime.strptime(s, '%Y-%m-%d') accepts s: a four-digit year and
\* a month and a day of one or two digits, separated by hyphens
StrpAccepts(s) ==
    LET f == SplitOn(s, "-", 1, <<>>) IN
    /\ Len(f) = 3
    /\ Len(f[1]) = 4
    /\ Len(f[2]) \in {1, 2}
    /\ Len(f[3]) \in {1, 2}
    /\ \A k \in 1..3 : \A i \in 1..Len(f[k]) : IsDigit(f[k][i])
    /\ ToInt(f[2]) \in 1..12
    /\ ToInt(f[3]) \in 1..31

\* datetime.strptime(s, '%Y-%m-%d'): midnight of the day
Strptime(s) ==
    LET f == SplitOn(s, "-", 1, <<>>) IN
    [y |-> ToInt(f[1]), m |-> ToInt(f[2]), d |-> ToInt(f[3]), h |-> 0, us |-> 0]

\* datetime.now().replace(day=1): the time of day is kept
ReplaceDay1(dt) == [dt EXCEPT !.d = 1]

-----------------------------------------------------------------------------
(* The file store *)

JsonSuffix == <<".", "j", "s", "o", "n">>

\* a variant of GetJournalPath: the file is named by the full timestamp
GetJournalPathWithTime(date) ==
    [dir |-> StrfYearMonth(date), file |-> IsoFormat(date) \o JsonSuffix]

\* _get_journal_path: <YYYY-MM>/<YYYY-MM-DD>.json under journal_dir
GetJournalPath(date) ==
    [dir |-> StrfYearMonth(date), file |-> StrfDate(date) \o JsonSuffix]

\* json.dump / json.load: the text written for a document, and the document
\* a text parses to
JsonDump(doc) == [parses |-> TRUE, value |-> doc]
JsonLoad(content) == content.value

\* a variant of SaveEntry: open(file_path, 'x'), which keeps a file that is
\* already there
SaveEntryIfAbsent(fs, entry, date) ==
    LET p == GetJournalPath(date) IN
    IF p \in DOMAIN fs THEN fs
    ELSE [q \in (DOMAIN fs) \cup {p} |-> IF q = p THEN JsonDump(entry) ELSE fs[q]]

\* a variant of SaveEntry: the month directory is emptied before the file is
\* written
SaveEntryAloneInMonth(fs, entry, date) ==
    LET p == GetJournalPath(date)
        kept == {q \in DOMAIN fs : q.dir # p.dir}
    IN  [q \in kept \cup {p} |-> IF q = p THEN JsonDump(entry) ELSE fs[q]]

\* _save_entry: open(file_path, 'w') creates the file or replaces its content
SaveEntry(fs, entry, date) ==
    LET p == GetJournalPath(date) IN
    [q \in (DOMAIN fs) \cup {p} |-> IF q = p THEN JsonDump(entry) ELSE fs[q]]

\* a variant of GetEntry: any document of the date's month directory
GetEntrySameMonth(fs, date) ==
    LET inDir == {p \in DOMAIN fs : p.dir = StrfYearMonth(date)} IN
    IF inDir # {} THEN Some(JsonLoad(fs[CHOOSE p \in inDir : TRUE])) ELSE None

\* get_entry: the parsed document, or None on FileNotFoundError
GetEntry(fs, date) ==
    LET p == GetJournalPath(date) IN
    IF p \in DOMAIN fs THEN Some(JsonLoad(fs[p])) ELSE None

-----------------------------------------------------------------------------
(* create_entry *)

\* the datetime an operation works on: `if date is None: date = now()`
DateOrNow(date, clock) == IF IsNone(date) THEN clock ELSE date[1]

\* what an operation hands back: a value, or the exception it raised
Returned(v) == [raised |-> "", value |-> v]
Raised(exc) == [raised |-> exc, value |-> None]

\* the entry structure create_entry builds; a holds the call's arguments
NewEntry(a, date, clock) ==
    [date |-> StrfDate(date),
     timestamp |-> IsoFormat(clock),
     category |-> a.category,
     content |->
        [text |-> a.text,
         tasks |-> OrEmptyList(a.tasks),
         goals |-> OrEmptyList(a.goals),
         tags |-> OrEmptyList(a.tags),
         chat_history |-> OrEmptyList(a.chat_history),
         ai_summary |-> SummaryOrEmptyList(a.ai_summary)],
     emotion_analysis |-> a.emotion_analysis,
     metadata |->
        [last_modified |-> IsoFormat(clock),
         word_count |-> WordCount(a.text),
         has_tasks |-> Truthy(a.tasks),
         has_goals |-> Truthy(a.goals),
         has_chat_history |-> Truthy(a.chat_history),
         has_ai_summary |-> SummaryTruthy(a.ai_summary)]]

\* create_entry: build the entry, save it under the date's path, return it
CreateEntryResult(fs, a, clock) ==
    LET date == DateOrNow(a.date, clock)
        entry == NewEntry(a, date, clock)
    IN  [fs |-> SaveEntry(fs, entry, date), ret |-> Returned(Some(entry))]

-----------------------------------------------------------------------------
(* update_entry *)

\* a variant of UpdText: the text is replaced and the count left as it was
UpdTextKeepCount(e, a) ==
    IF Truthy(a.text) THEN [e EXCEPT !.content.text = a.text[1]] ELSE e

\* `if text:` (lines 121-123)
UpdText(e, a) ==
    IF Truthy(a.text)
    THEN [e EXCEPT !.content.text = a.text[1],
                   !.metadata.word_count = WordCount(a.text[1])]
    ELSE e

\* `if emotion_analysis:` (lines 125-126)
UpdEmotion(e, a) ==
    IF Truthy(a.emotion_analysis)
    THEN [e EXCEPT !.emotion_analysis = a.emotion_analysis]
    ELSE e

\* `if tasks is not None:` (lines 128-130)
UpdTasks(e, a) ==
    IF ~IsNone(a.tasks)
    THEN [e EXCEPT !.content.tasks = a.tasks[1],
                   !.metadata.has_tasks = Truthy(a.tasks)]
    ELSE e

\* a variant of UpdGoals: `goals or []`, which empties the stored goals when
\* none are given
UpdGoalsOrEmpty(e, a) ==
    [e EXCEPT !.content.goals = OrEmptyList(a.goals),
              !.metadata.has_goals = Truthy(a.goals)]

\* `if goals is not None:` (lines 132-134)
UpdGoals(e, a) ==
    IF ~IsNone(a.goals)
    THEN [e EXCEPT !.content.goals = a.goals[1],
                   !.metadata.has_goals = Truthy(a.goals)]
    ELSE e

\* `if tags is not None:` (lines 136-137)
UpdTags(e, a) ==
    IF ~IsNone(a.tags) THEN [e EXCEPT !.content.tags = a.tags[1]] ELSE e

\* `if chat_history is not None:` (lines 139-141)
UpdChat(e, a) ==
    IF ~IsNone(a.chat_history)
    THEN [e EXCEPT !.content.chat_history = a.chat_history[1],
                   !.metadata.has_chat_history = Truthy(a.chat_history)]
    ELSE e

\* `if ai_summary is not None:` (lines 143-145)
UpdSummary(e, a) ==
    IF ~IsNone(a.ai_summary)
    THEN [e EXCEPT !.content.ai_summary = a.ai_summary[1],
                   !.metadata.has_ai_summary = SummaryTruthy(a.ai_summary)]
    ELSE e

\* the entry update_entry writes back for the loaded entry e
UpdatedEntry(e, a, clock) ==
    LET e1 == UpdText(e, a)
        e2 == UpdEmotion(e1, a)
        e3 == UpdTasks(e2, a)
        e4 == UpdGoals(e3, a)
        e5 == UpdTags(e4, a)
        e6 == UpdChat(e5, a)
        e7 == UpdSummary(e6, a)
    IN  [e7 EXCEPT !.metadata.last_modified = IsoFormat(clock)]

\* a variant of UpdateEntryResult: an upsert, which writes the supplied
\* fields into a new document when the date has none
UpdateEntryOrCreate(fs, a, clock) ==
    LET old == GetEntry(fs, a.date)
        blank == [text |-> <<>>, emotion_analysis |-> Some(EmptyDict),
                  tasks |-> None, goals |-> None, tags |-> None,
                  category |-> "daily", chat_history |-> None,
                  ai_summary |-> None]
        e == UpdatedEntry(IF IsNone(old) THEN NewEntry(blank, a.date, clock) ELSE old[1], a, clock)
    IN  [fs |-> SaveEntry(fs, e, a.date), ret |-> Returned(Some(e))]

\* update_entry: None and no write when the date has no entry
UpdateEntryResult(fs, a, clock) ==
    LET old == GetEntry(fs, a.date) IN
    IF IsNone(old)
    THEN [fs |-> fs, ret |-> Returned(None)]
    ELSE LET e == UpdatedEntry(old[1], a, clock) IN
         [fs |-> SaveEntry(fs, e, a.date), ret |-> Returned(Some(e))]

-----------------------------------------------------------------------------
(* record_entry *)

\* the separator record_entry puts between the new and the old text
MergeDelimiter == <<" ", "\n", " ">>

\* text.replace("\n","\\n").replace('[', '').replace(']', '')
Sanitize(text) ==
    Replace(Replace(Replace(text, "\n", <<"\\", "n">>), "[", <<>>), "]", <<>>)

\* a variant of MergedText: the new text appended after the old one
MergedTextOldFirst(new, old) == old \o MergeDelimiter \o Sanitize(new)

\* a variant of MergedText: a text equal to the stored one is not added again
MergedTextOnce(new, old) ==
    IF new = old THEN old ELSE Sanitize(new) \o MergeDelimiter \o old

\* the text record_entry hands to update_entry (line 273)
MergedText(new, old) == Sanitize(new) \o MergeDelimiter \o old

\* a variant of MergedList: an element the new list has is not taken from
\* the old list again
MergedListUnique(new, old) ==
    new \o SelectSeq(old, LAMBDA x : \A i \in 1..Len(new) : new[i] # x)

\* `tasks + entry['content']["tasks"]` (lines 275-277)
MergedList(new, old) == new \o old

\* a variant of MergedChat: the new messages put before the stored ones
MergedChatNewFirst(new, old) == IF Truthy(new) THEN new[1] \o old ELSE old

\* the chat history of lines 264-266: `+=` when new messages are given
MergedChat(new, old) == IF Truthy(new) THEN old \o new[1] ELSE old

\* a variant of MergedSummary: whatever summary is given replaces the
\* stored one
MergedSummaryAlwaysNew(new, old) == IF IsNone(new) THEN "[]" ELSE new[1]

\* `ai_summary if ai_summary else entry['content'].get('ai_summary', [])`
MergedSummary(new, old) == IF SummaryTruthy(new) THEN new[1] ELSE old

\* the arguments of the update_entry call of lines 271-280
MergeArgs(entry, a, date) ==
    [date |-> date,
     text |-> Some(MergedText(a.text, entry.content.text)),
     emotion_analysis |->
        Some(DictUpdate(entry.emotion_analysis[1], a.emotion_analysis[1])),
     tasks |-> Some(MergedList(a.tasks, entry.content.tasks)),
     goals |-> Some(MergedList(a.goals, entry.content.goals)),
     tags |-> Some(MergedList(a.tags, entry.content.tags)),
     chat_history |-> Some(MergedChat(a.chat_history, entry.content.chat_history)),
     ai_summary |-> Some(MergedSummary(a.ai_summary, entry.content.ai_summary))]

\* the arguments of the create_entry call of lines 246-256
CreateArgs(a, date) ==
    [a EXCEPT !.date = Some(date),
              !.tasks = Some(a.tasks),
              !.goals = Some(a.goals),
              !.tags = Some(a.tags)]

\* record_entry: create when the date has no entry, else merge and update.
\* A stored analysis of null has no copy() (AttributeError), and
\* dict.update(None) is a TypeError: both leave the store as it was.
RecordEntryResult(fs, a, clock) ==
    LET date == DateOrNow(a.date, clock)
        old == GetEntry(fs, date)
    IN  IF IsNone(old)
        THEN CreateEntryResult(fs, CreateArgs(a, date), clock)
        ELSE IF IsNone(old[1].emotion_analysis)
        THEN [fs |-> fs, ret |-> Raised("AttributeError")]
        ELSE IF IsNone(a.emotion_analysis)
        THEN [fs |-> fs, ret |-> Raised("TypeError")]
        ELSE UpdateEntryResult(fs, MergeArgs(old[1], a, date), clock)

-----------------------------------------------------------------------------
(* search_entries *)

\* file.endswith('.json')
EndsWithJson(name) ==
    /\ Len(name) >= Len(JsonSuffix)
    /\ SubSeq(name, Len(name) - Len(JsonSuffix) + 1, Len(name)) = JsonSuffix

\* str.lower(), on the letters the emotion labels of the model use
LowerChar(c) ==
    CASE c = "H" -> "h"
      [] c = "S" -> "s"
      [] c = "A" -> "a"
      [] c = "D" -> "d"
      [] OTHER -> c

Lower(s) == [i \in 1..Len(s) |-> LowerChar(s[i])]

\* the elements of a list
Elems(list) == {list[i] : i \in 1..Len(list)}

\* `start_date <= entry_date <= end_date` (line 180)
InSearchRange(entry_date, start, end) == DtLeq(start, entry_date) /\ DtLeq(entry_date, end)

\* `tags and not any(tag in entry['content']['tags'] for tag in tags)`
TagsExclude(entry, tags) ==
    Truthy(tags) /\ ~\E t \in Elems(tags[1]) : t \in Elems(entry.content.tags)

\* a variant of EmotionExcludes: the labels compared as they are written
EmotionExcludesExact(entry, emotion) ==
    Truthy(emotion) /\ entry.emotion_analysis[1].primary_emotion # emotion[1]

\* `emotion and entry[...]['primary_emotion'].lower() != emotion.lower()`
EmotionExcludes(entry, emotion) ==
    Truthy(emotion) /\ Lower(entry.emotion_analysis[1].primary_emotion) # Lower(emotion[1])

\* whether evaluating the emotion test raises: a null analysis is not
\* subscriptable, a mapping without the key is a KeyError
EmotionTestRaises(entry, emotion) ==
    /\ Truthy(emotion)
    /\ \/ IsNone(entry.emotion_analysis)
       \/ "primary_emotion" \notin DOMAIN entry.emotion_analysis[1]

\* a variant of SearchKeeps: every requested tag must be on the entry
SearchKeepsAllTags(content, start, end, a) ==
    /\ content.parses
    /\ LET entry == JsonLoad(content) IN
       /\ "date" \in DOMAIN entry
       /\ StrpAccepts(entry.date)
       /\ InSearchRange(Strptime(entry.date), start, end)
       /\ Truthy(a.tags) => \A t \in Elems(a.tags[1]) : t \in Elems(entry.content.tags)
       /\ ~EmotionTestRaises(entry, a.emotion)
       /\ ~EmotionExcludes(entry, a.emotion)

\* the body of the loop (lines 173-187): whether the file's entry is
\* appended; a file that does not parse, or whose entry raises (no date key:
\* KeyError, a date strptime rejects: ValueError), is skipped
SearchKeeps(content, start, end, a) ==
    /\ content.parses
    /\ LET entry == JsonLoad(content) IN
       /\ "date" \in DOMAIN entry
       /\ StrpAccepts(entry.date)
       /\ InSearchRange(Strptime(entry.date), start, end)
       /\ ~TagsExclude(entry, a.tags)
       /\ ~EmotionTestRaises(entry, a.emotion)
       /\ ~EmotionExcludes(entry, a.emotion)

\* sorted() inserts stably: x goes after the elements whose key is not
\* greater than its own
RECURSIVE InsertByDate(_, _)
InsertByDate(sorted, x) ==
    IF sorted = <<>> THEN <<x>>
    ELSE IF StrLess(x.date, Head(sorted).date) THEN <<x>> \o sorted
    ELSE <<Head(sorted)>> \o InsertByDate(Tail(sorted), x)

RECURSIVE SortFrom(_, _, _)
SortFrom(seq, i, acc) ==
    IF i > Len(seq) THEN acc ELSE SortFrom(seq, i + 1, InsertByDate(acc, seq[i]))

\* a variant of SortedByDate: the entries as the walk met them
InWalkOrder(seq) == seq

\* sorted(entries, key=lambda x: x['date'])
SortedByDate(seq) == SortFrom(seq, 1, <<>>)

\* the entries the walk appends, in the order it meets the files
RECURSIVE SearchCollect(_, _, _, _, _, _)
SearchCollect(fs, order, i, start, end, a) ==
    IF i > Len(order) THEN <<>>
    ELSE (IF EndsWithJson(order[i].file) /\ SearchKeeps(fs[order[i]], start, end, a)
          THEN <<JsonLoad(fs[order[i]])>>
          ELSE <<>>) \o SearchCollect(fs, order, i + 1, start, end, a)

\* the range searched: the month so far when no date is given
SearchStart(a, clock) == IF IsNone(a.start_date) THEN ReplaceDay1(clock) ELSE a.start_date[1]
SearchEnd(a, clock) == IF IsNone(a.end_date) THEN clock ELSE a.end_date[1]

\* search_entries, with the files met in the given order
SearchEntriesResult(fs, a, clock, order) ==
    Returned(SortedByDate(
        SearchCollect(fs, order, 1, SearchStart(a, clock), SearchEnd(a, clock), a)))

\* the permutations of a finite set
RECURSIVE Orderings(_)
Orderings(S) ==
    IF S = {} THEN {<<>>}
    ELSE UNION {{<<x>> \o p : p \in Orderings(S \ {x})} : x \in S}

\* the orders in which os.walk can meet the files: directory by directory,
\* the directories and the files of each in any order
WalkOrders(fs) ==
    {o \in Orderings(DOMAIN fs) :
        \A i, j, k \in 1..Len(o) :
            (i < j /\ j < k /\ o[i].dir = o[k].dir) => o[j].dir = o[i].dir}

-----------------------------------------------------------------------------
(* get_all_entries *)

\* a variant of GetAllCollect: the scan ends at the first file that does
\* not parse
RECURSIVE GetAllCollectUntilError(_, _, _)
GetAllCollectUntilError(fs, order, i) ==
    IF i > Len(order) THEN <<>>
    ELSE IF ~EndsWithJson(order[i].file) THEN GetAllCollectUntilError(fs, order, i + 1)
    ELSE IF ~fs[order[i]].parses THEN <<>>
    ELSE <<JsonLoad(fs[order[i]])>> \o GetAllCollectUntilError(fs, order, i + 1)

\* the documents the walk appends (lines 201-212): every .json file that
\* json.load parses, whatever it holds; a file that does not parse is
\* reported and passed over
RECURSIVE GetAllCollect(_, _, _)
GetAllCollect(fs, order, i) ==
    IF i > Len(order) THEN <<>>
    ELSE (IF EndsWithJson(order[i].file) /\ fs[order[i]].parses
          THEN <<JsonLoad(fs[order[i]])>>
          ELSE <<>>) \o GetAllCollect(fs, order, i + 1)

\* get_all_entries, with the files met in the given order. The sort of line
\* 215 is outside the try: its key x['date'] raises KeyError when a
\* collected document has no date.
GetAllEntriesResult(fs, order) ==
    LET entries == GetAllCollect(fs, order, 1) IN
    IF \E i \in 1..Len(entries) : "date" \notin DOMAIN entries[i]
    THEN Raised("KeyError")
    ELSE Returned(SortedByDate(entries))

-----------------------------------------------------------------------------
(* Inputs of the store specification *)

Happy == <<"H", "a", "p", "p", "y">>
Sad == <<"s", "a", "d">>

\* arguments of create_entry besides the date: every optional argument
\* omitted and an empty text; all supplied; supplied but empty, with a
\* whitespace-only text; a text with tabs, runs of spaces and a newline
CreateInputs ==
    {[text |-> <<>>, emotion_analysis |-> Some(EmptyDict), tasks |-> None,
      goals |-> None, tags |-> None, category |-> "daily",
      chat_history |-> None, ai_summary |-> None],
     [text |-> <<"a", " ", "b">>,
      emotion_analysis |-> Some([primary_emotion |-> Happy]),
      tasks |-> Some(<<"t1">>), goals |-> Some(<<"g1">>),
      tags |-> Some(<<"x">>), category |-> "weekly",
      chat_history |-> Some(<<"m1">>), ai_summary |-> Some("s1")],
     [text |-> <<" ", "\n">>,
      emotion_analysis |-> Some([primary_emotion |-> Sad, emotion_intensity |-> <<"5">>]),
      tasks |-> Some(<<>>), goals |-> Some(<<"g2">>),
      tags |-> Some(<<"y", "x">>), category |-> "daily",
      chat_history |-> Some(<<>>), ai_summary |-> Some("")],
     [text |-> <<"\t", "a", " ", " ", "b", "\n", "c">>,
      emotion_analysis |-> Some(EmptyDict), tasks |-> None, goals |-> None,
      tags |-> Some(<<"z">>), category |-> "daily", chat_history |-> None,
      ai_summary |-> None]}

\* arguments of update_entry besides the date: nothing supplied; every
\* field supplied; every field supplied empty
UpdateInputs ==
    {[text |-> None, emotion_analysis |-> None, tasks |-> None, goals |-> None,
      tags |-> None, chat_history |-> None, ai_summary |-> None],
     [text |-> Some(<<"c">>), emotion_analysis |-> Some([primary_emotion |-> Sad]),
      tasks |-> Some(<<"t3">>), goals |-> None, tags |-> Some(<<"z">>),
      chat_history |-> Some(<<"m3">>), ai_summary |-> Some("s3")],
     [text |-> Some(<<>>), emotion_analysis |-> Some(EmptyDict),
      tasks |-> Some(<<>>), goals |-> Some(<<>>), tags |-> Some(<<>>),
      chat_history |-> Some(<<>>), ai_summary |-> Some("")]}

\* record_entry(text=t, date=d): every other argument at its default
RecordDefaults(t) ==
    [text |-> t, emotion_analysis |-> Some(EmptyDict), tasks |-> <<>>,
     goals |-> <<>>, tags |-> <<>>, category |-> "daily",
     chat_history |-> Some(<<>>), ai_summary |-> Some("[]")]

\* arguments of record_entry besides the date: texts alone (empty, one with
\* a newline and square brackets); a two-word text with an empty summary
\* and no chat history; every argument supplied; the Optional arguments
\* given as None
RecordInputs ==
    {RecordDefaults(<<>>),
     [RecordDefaults(<<"a", " ", "b">>) EXCEPT !.chat_history = None,
                                             !.ai_summary = Some("")],
     RecordDefaults(<<"a", "\n", "[", "b", "]">>),
     [text |-> <<"d">>,
      emotion_analysis |-> Some([primary_emotion |-> Happy, note |-> <<"n">>]),
      tasks |-> <<"t4">>, goals |-> <<"g4">>, tags |-> <<"x">>,
      category |-> "weekly", chat_history |-> Some(<<"m4">>),
      ai_summary |-> Some("s4")],
     [text |-> <<"e">>, emotion_analysis |-> None, tasks |-> <<>>,
      goals |-> <<>>, tags |-> <<>>, category |-> "daily",
      chat_history |-> None, ai_summary |-> None]}

\* the datetimes operations are called with: two times of one day, and
\* another day of the same month
OpDates ==
    {[y |-> 2025, m |-> 1, d |-> 1, h |-> 0, us |-> 0],
     [y |-> 2025, m |-> 1, d |-> 1, h |-> 12, us |-> 0],
     [y |-> 2025, m |-> 1, d |-> 2, h |-> 12, us |-> 0]}

\* the dates create_entry and record_entry are called with: None is today,
\* a day of another month
OptDates ==
    {None,
     Some([y |-> 2025, m |-> 1, d |-> 1, h |-> 0, us |-> 0]),
     Some([y |-> 2025, m |-> 1, d |-> 1, h |-> 12, us |-> 0])}

\* the clock when the store is opened
StartTimes == {[y |-> 2024, m |-> 12, d |-> 31, h |-> 12, us |-> 0]}

WithDate(a, date) == [date |-> date] @@ a

-----------------------------------------------------------------------------
(* The store specification: any sequence of operations on one JournalManager *)

DayOf(dt) == <<dt.y, dt.m, dt.d>>

NoCall == [op |-> "init", args |-> <<>>, day |-> <<>>, existed |-> FALSE]

\* no writer running, no pending login, no user stored
NoOthers == procs = <<>> /\ sessions = <<>> /\ users = <<>> /\ dirs = {}

Init ==
    /\ files = <<>>
    /\ now \in StartTimes
    /\ call = NoCall
    /\ ret = Returned(None)
    /\ prev = [call |-> NoCall, ret |-> Returned(None)]
    /\ written = {}
    /\ nops = 0
    /\ NoOthers

\* the bookkeeping of every call: r is the operation's result, date the
\* datetime it worked on; the clock moves on during the call
Called(op, a, date, r) ==
    /\ files' = r.fs
    /\ ret' = r.ret
    /\ call' = [op |-> op, args |-> a, day |-> DayOf(date),
                existed |-> \E p \in DOMAIN files : JsonLoad(files[p]).date = StrfDate(date)]
    /\ prev' = [call |-> call, ret |-> ret]
    /\ written' = IF r.fs = files THEN written ELSE written \cup {DayOf(date)}
    /\ nops' = nops + 1
    /\ now' = [now EXCEPT !.us = @ + 1]
    /\ UNCHANGED others

CreateEntry(a) ==
    Called("create_entry", a, DateOrNow(a.date, now), CreateEntryResult(files, a, now))

UpdateEntry(a) ==
    Called("update_entry", a, a.date, UpdateEntryResult(files, a, now))

RecordEntry(a) ==
    Called("record_entry", a, DateOrNow(a.date, now), RecordEntryResult(files, a, now))

GetEntryCall(a) ==
    Called("get_entry", a, a.date, [fs |-> files, ret |-> Returned(GetEntry(files, a.date))])

Next ==
    /\ nops < MaxOps
    /\ \/ \E a \in CreateInputs, d \in OptDates : CreateEntry(WithDate(a, d))
       \/ \E a \in UpdateInputs, d \in OpDates : UpdateEntry(WithDate(a, d))
       \/ \E a \in RecordInputs, d \in OptDates : RecordEntry(WithDate(a, d))
       \/ \E d \in OpDates : GetEntryCall([date |-> d])

Spec == Init /\ [][Next]_vars

-----------------------------------------------------------------------------
(* Repeated record_entry: the same call, again and again, on a fresh store *)

RepeatDates == {None} \cup {Some(d) : d \in Datetimes}

RepeatNext ==
    /\ nops < MaxOps
    /\ \E a \in RecordInputs, d \in RepeatDates :
          /\ IF call.op = "init" THEN TRUE ELSE call.args = WithDate(a, d)
          /\ RecordEntry(WithDate(a, d))

SpecRepeat == Init /\ [][RepeatNext]_vars

-----------------------------------------------------------------------------
(* The search specification: one query on a store in any state *)

\* files a store may hold when it is opened
MaxStored == 3

\* the entries of such a store: create_entry calls with these arguments
StoredInputs ==
    {a \in CreateInputs : a.text \in {<<>>, <<"a", " ", "b">>, <<" ", "\n">>}}

RECURSIVE StoreOf(_, _)
StoreOf(days, pick) ==
    IF days = {} THEN <<>>
    ELSE LET day == CHOOSE x \in days : TRUE
             at == [y |-> day[1], m |-> day[2], d |-> day[3], h |-> 12, us |-> 0]
         IN  CreateEntryResult(StoreOf(days \ {day}, pick), WithDate(pick[day], Some(at)), at).fs

SearchStores ==
    UNION {{StoreOf(days, pick) : pick \in [days -> StoredInputs]} :
              days \in {D \in SUBSET CalendarDays : Cardinality(D) <= MaxStored}}

\* the clock when the query is made: a midnight, and two other times
SearchClocks ==
    {[y |-> 2025, m |-> 1, d |-> 2, h |-> 0, us |-> 0],
     [y |-> 2025, m |-> 1, d |-> 2, h |-> 12, us |-> 0],
     [y |-> 2025, m |-> 1, d |-> 10, h |-> 12, us |-> 0]}

\* the lower bounds of the range: none, a midnight, and two noons
SearchStarts ==
    {None,
     Some([y |-> 2025, m |-> 1, d |-> 1, h |-> 0, us |-> 0]),
     Some([y |-> 2025, m |-> 1, d |-> 1, h |-> 12, us |-> 0]),
     Some([y |-> 2025, m |-> 1, d |-> 2, h |-> 12, us |-> 0])}

\* the upper bounds of the range: none, two noons, and a midnight
SearchEnds ==
    {None,
     Some([y |-> 2024, m |-> 12, d |-> 31, h |-> 12, us |-> 0]),
     Some([y |-> 2025, m |-> 1, d |-> 1, h |-> 12, us |-> 0]),
     Some([y |-> 2025, m |-> 1, d |-> 10, h |-> 0, us |-> 0])}

SadUpper == <<"S", "A", "D">>

SearchInputs ==
    [start_date : SearchStarts,
     end_date : SearchEnds,
     tags : {None, Some(<<"x">>), Some(<<"y", "z">>)},
     emotion : {None, Some(SadUpper)}]

InitSearch ==
    /\ files \in SearchStores
    /\ now \in SearchClocks
    /\ call = NoCall
    /\ ret = Returned(None)
    /\ prev = [call |-> NoCall, ret |-> Returned(None)]
    /\ written = {DayOf(Strptime(JsonLoad(files[p]).date)) : p \in DOMAIN files}
    /\ nops = 0
    /\ NoOthers

\* the bookkeeping of a query: nothing is written
Queried(op, a, r) ==
    /\ ret' = r
    /\ call' = [op |-> op, args |-> a, clock |-> now]
    /\ prev' = [call |-> call, ret |-> ret]
    /\ nops' = nops + 1
    /\ now' = [now EXCEPT !.us = @ + 1]
    /\ UNCHANGED <<files, written, others>>

SearchEntries(a, order) ==
    Queried("search_entries", a, SearchEntriesResult(files, a, now, order))

SearchNext ==
    /\ nops = 0
    /\ \E order \in WalkOrders(files), a \in SearchInputs : SearchEntries(a, order)

SpecSearch == InitSearch /\ [][SearchNext]_vars

-----------------------------------------------------------------------------
(* The frame specification: the operations of the store specification on a  *)
(* store that holds entries of several days when it is opened                *)

\* the stores of the search specification that hold at most two entries
FrameStores == {fs \in SearchStores : Cardinality(DOMAIN fs) <= 2}

InitFrame ==
    /\ files \in FrameStores
    /\ now \in StartTimes
    /\ call = NoCall
    /\ ret = Returned(None)
    /\ prev = [call |-> NoCall, ret |-> Returned(None)]
    /\ written = {DayOf(Strptime(JsonLoad(files[p]).date)) : p \in DOMAIN files}
    /\ nops = 0
    /\ NoOthers

FrameNext ==
    /\ nops < MaxFrameOps
    /\ \/ \E a \in CreateInputs, d \in OptDates : CreateEntry(WithDate(a, d))
       \/ \E a \in UpdateInputs, d \in OpDates : UpdateEntry(WithDate(a, d))
       \/ \E a \in RecordInputs, d \in OptDates : RecordEntry(WithDate(a, d))
       \/ \E d \in OpDates : GetEntryCall([date |-> d])

SpecFrame == InitFrame /\ [][FrameNext]_vars

-----------------------------------------------------------------------------
(* The scan specification: search_entries and get_all_entries on a store    *)
(* that also holds files no entry was written to                            *)

\* the entry create_entry writes for a day
ScanEntry(day) ==
    LET at == [y |-> day[1], m |-> day[2], d |-> day[3], h |-> 12, us |-> 0]
        a == CHOOSE x \in CreateInputs : x.tags = Some(<<"y", "x">>)
    IN  NewEntry(a, at, at)

\* a file that is not JSON
Corrupted == [parses |-> FALSE, value |-> <<>>]

\* a JSON document without the date key
WithoutDate(doc) == [k \in (DOMAIN doc) \ {"date"} |-> doc[k]]

\* a date string strptime rejects
BadDate == <<"2", "0", "2", "5", "-", "1", "3", "-", "0", "1">>

\* what the .json file of a day may hold: the entry, no JSON, the entry
\* without its date, the entry with a date that is none
ScanContents(day) ==
    {JsonDump(ScanEntry(day)),
     Corrupted,
     JsonDump(WithoutDate(ScanEntry(day))),
     JsonDump([ScanEntry(day) EXCEPT !.date = BadDate])}

\* a file of another kind in a month directory
StrayPath == [dir |-> <<"2", "0", "2", "5", "-", "0", "1">>, file |-> <<"n", ".", "t", "x", "t">>]

ScanPath(day) == GetJournalPath([y |-> day[1], m |-> day[2], d |-> day[3], h |-> 0, us |-> 0])

ScanStoresOf(days) ==
    LET paths == {ScanPath(day) : day \in days}
        dayOf(p) == CHOOSE day \in days : ScanPath(day) = p
        json == {f \in [paths -> UNION {ScanContents(day) : day \in days}] :
                    \A p \in paths : f[p] \in ScanContents(dayOf(p))}
    IN  json \cup {[p \in paths \cup {StrayPath} |-> IF p = StrayPath THEN Corrupted ELSE f[p]] : f \in json}

ScanStores ==
    UNION {ScanStoresOf(days) :
              days \in {D \in SUBSET CalendarDays : Cardinality(D) <= MaxStored}}

ScanClocks == {[y |-> 2025, m |-> 1, d |-> 10, h |-> 12, us |-> 0]}

\* the queries: the defaults, a range that holds every day of the model,
\* and that range with an emotion
ScanInputs ==
    {[start_date |-> None, end_date |-> None, tags |-> None, emotion |-> None],
     [start_date |-> Some([y |-> 2024, m |-> 12, d |-> 31, h |-> 0, us |-> 0]),
      end_date |-> Some([y |-> 2025, m |-> 1, d |-> 10, h |-> 12, us |-> 0]),
      tags |-> None, emotion |-> None],
     [start_date |-> Some([y |-> 2024, m |-> 12, d |-> 31, h |-> 0, us |-> 0]),
      end_date |-> Some([y |-> 2025, m |-> 1, d |-> 10, h |-> 12, us |-> 0]),
      tags |-> None, emotion |-> Some(SadUpper)]}

InitScan ==
    /\ files \in ScanStores
    /\ now \in ScanClocks
    /\ call = NoCall
    /\ ret = Returned(None)
    /\ prev = [call |-> NoCall, ret |-> Returned(None)]
    /\ written = {}
    /\ nops = 0
    /\ NoOthers

GetAllEntries(order) ==
    Queried("get_all_entries", <<>>, GetAllEntriesResult(files, order))

ScanNext ==
    /\ nops = 0
    /\ \E order \in WalkOrders(files) :
          \/ GetAllEntries(order)
          \/ \E a \in ScanInputs : SearchEntries(a, order)

SpecScan == InitScan /\ [][ScanNext]_vars

-----------------------------------------------------------------------------
(* AppManager (src/src/app_manager.py): the operations callers use, which   *)
(* take their dates as strings                                              *)

\* calls of one behaviour of the application specification
MaxAppOps == 2

\* the days of a month
DaysInMonth(y, m) ==
    IF m = 2 THEN (IF y % 4 = 0 /\ (y % 100 # 0 \/ y % 400 = 0) THEN 29 ELSE 28)
    ELSE IF m \in {4, 6, 9, 11} THEN 30 ELSE 31

NextDay(dt) ==
    IF dt.d < DaysInMonth(dt.y, dt.m) THEN [dt EXCEPT !.d = @ + 1]
    ELSE IF dt.m < 12 THEN [dt EXCEPT !.m = @ + 1, !.d = 1]
    ELSE [dt EXCEPT !.y = @ + 1, !.m = 1, !.d = 1]

PrevDay(dt) ==
    IF dt.d > 1 THEN [dt EXCEPT !.d = @ - 1]
    ELSE IF dt.m > 1 THEN [dt EXCEPT !.m = @ - 1, !.d = DaysInMonth(dt.y, dt.m - 1)]
    ELSE [dt EXCEPT !.y = @ - 1, !.m = 12, !.d = 31]

\* dt + timedelta(days=n): the time of day is kept
RECURSIVE AddDays(_, _)
AddDays(dt, n) ==
    IF n = 0 THEN dt
    ELSE IF n > 0 THEN AddDays(NextDay(dt), n - 1)
    ELSE AddDays(PrevDay(dt), n + 1)

\* the result dictionaries of a refusal
AppFailure(msg) == [success |-> FALSE, error |-> msg]
InvalidDateFormat == AppFailure("Invalid date format. Use YYYY-MM-DD")

\* `if date:` with a strptime that raises ValueError
DateRejected(date) == Truthy(date) /\ ~StrpAccepts(date[1])

\* the provided date or the current date
EntryDate(date, clock) == IF Truthy(date) THEN Strptime(date[1]) ELSE clock

\* create_entry as the save operations call it: text, analysis, date and
\* tags given, everything else left out
AppCreateArgs(text, analysis, entry_date, tags) ==
    [text |-> text, emotion_analysis |-> Some(analysis), date |-> Some(entry_date),
     tasks |-> None, goals |-> None, tags |-> tags, category |-> "daily",
     chat_history |-> None, ai_summary |-> None]

\* the dictionary a save operation returns after create_entry
Saved(r, entry_date, extra) ==
    [fs |-> r.fs,
     ret |-> Returned([success |-> TRUE, entry_id |-> r.ret.value[1].date,
                       date |-> StrfDate(entry_date)] @@ extra)]

Refused(fs, result) == [fs |-> fs, ret |-> Returned(result)]

\* save_text_journal; analysis is what the analyzer gave ({} when it failed)
SaveTextJournalResult(fs, a, clock, analysis) ==
    IF a.text = <<>> THEN Refused(fs, AppFailure("Journal text cannot be empty"))
    ELSE IF DateRejected(a.date) THEN Refused(fs, InvalidDateFormat)
    ELSE LET entry_date == EntryDate(a.date, clock) IN
         Saved(CreateEntryResult(fs, AppCreateArgs(a.text, analysis, entry_date, None), clock),
               entry_date, <<>>)

\* save_audio_journal; result is what the audio processor gave
SaveAudioJournalResult(fs, a, clock, result, analysis) ==
    IF a.audio_file = "" THEN Refused(fs, AppFailure("No audio file provided"))
    ELSE IF ~result.success THEN Refused(fs, result)
    ELSE IF DateRejected(a.date) THEN Refused(fs, InvalidDateFormat)
    ELSE LET entry_date == EntryDate(a.date, clock) IN
         Saved(CreateEntryResult(fs, AppCreateArgs(result.text, analysis, entry_date,
                                                   Some(<<"audio">>)), clock),
               entry_date, [transcription |-> result.text])

Unknown == <<"u", "n", "k", "n", "o", "w", "n">>

\* the analysis save_image_journal builds from the image processor's
\* results (lines 231-237), the image content analysis giving nothing
ImageAnalysis(results) ==
    [primary_emotion |->
        IF "primary_emotion" \in DOMAIN results THEN results.primary_emotion ELSE Unknown,
     emotion_intensity |-> <<"5">>,
     emotional_themes |-> <<>>,
     mood_summary |-> "No content analysis available",
     suggested_actions |-> <<>>]

\* save_image_journal; results is what the image processor gave
SaveImageJournalResult(fs, a, clock, results) ==
    IF a.image_file = "" THEN Refused(fs, AppFailure("No image file provided"))
    ELSE IF DateRejected(a.date) THEN Refused(fs, InvalidDateFormat)
    ELSE LET entry_date == EntryDate(a.date, clock) IN
         Saved(CreateEntryResult(fs, AppCreateArgs(a.notes, ImageAnalysis(results), entry_date,
                                                   Some(<<"image">>)), clock),
               entry_date,
               [emotions |-> results,
                visualization |-> IF "average_emotions" \in DOMAIN results
                                  THEN Some("png") ELSE None])

\* get_entries_by_date: a date strptime rejects gives the empty list
GetEntriesByDateResult(fs, a) ==
    IF ~StrpAccepts(a.date) THEN Returned(<<>>)
    ELSE Returned(GetEntry(fs, Strptime(a.date)))

\* the first day of the week get_weekly_summary reports on (lines 286-293):
\* six days before now when no date is given, and when the date given is
\* none
WeekStart(start_date, clock) ==
    IF Truthy(start_date) /\ StrpAccepts(start_date[1])
    THEN Strptime(start_date[1])
    ELSE AddDays(clock, -6)

\* get_weekly_summary; summary is what the analyzer gave, None when it
\* raised
GetWeeklySummaryResult(fs, a, clock, order, summary) ==
    LET start == WeekStart(a.start_date, clock)
        end == AddDays(start, 6)
        entries == SearchEntriesResult(fs, [start_date |-> Some(start), end_date |-> Some(end),
                                            tags |-> None, emotion |-> None],
                                       clock, order).value
        week == [start_date |-> StrfDate(start), end_date |-> StrfDate(end)]
    IN  IF entries = <<>>
        THEN Returned([success |-> TRUE, summary |-> "No entries found for this week."] @@ week)
        ELSE IF IsNone(summary)
        THEN Returned([success |-> FALSE, error |-> "Error generating summary",
                       entries_count |-> Len(entries)] @@ week)
        ELSE Returned([success |-> TRUE, entries_count |-> Len(entries),
                       summary |-> summary[1]] @@ week)

-----------------------------------------------------------------------------
(* The application specification: any sequence of AppManager operations *)

\* the date strings callers pass: none, a date, a date without zero
\* padding, a thirteenth month, a word
AppDates ==
    {None,
     Some(<<"2", "0", "2", "5", "-", "0", "1", "-", "0", "1">>),
     Some(<<"2", "0", "2", "5", "-", "1", "-", "2">>),
     Some(BadDate),
     Some(<<"n", "o", "w">>)}

AppTexts == {<<>>, <<"a", " ", "b">>}

\* what the analyzer gives for a text: {} stands for its failure as well
Analyses == {EmptyDict, [primary_emotion |-> Happy]}

\* what the audio processor gives: a failure or a transcription
AudioResults ==
    {[success |-> FALSE, error |-> "Could not transcribe"],
     [success |-> TRUE, audio_file |-> "f.wav", text |-> <<"a", " ", "b">>]}

\* what the image processor gives: no emotion found, or one
EmotionResults ==
    {EmptyDict, [primary_emotion |-> Happy, average_emotions |-> <<"h">>]}

\* what the analyzer gives for a week: a summary, or it raises
Summaries == {None, Some("w")}

AppClocks == {[y |-> 2025, m |-> 1, d |-> 2, h |-> 12, us |-> 0]}

InitApp ==
    /\ files = <<>>
    /\ now \in AppClocks
    /\ call = NoCall
    /\ ret = Returned(None)
    /\ prev = [call |-> NoCall, ret |-> Returned(None)]
    /\ written = {}
    /\ nops = 0
    /\ NoOthers

\* the bookkeeping of an AppManager call
AppCalled(op, a, r) ==
    /\ files' = r.fs
    /\ ret' = r.ret
    /\ call' = [op |-> op, args |-> a, clock |-> now]
    /\ prev' = [call |-> call, ret |-> ret]
    /\ written' = {DayOf(Strptime(JsonLoad(r.fs[p]).date)) : p \in DOMAIN r.fs}
    /\ nops' = nops + 1
    /\ now' = [now EXCEPT !.us = @ + 1]
    /\ UNCHANGED others

SaveTextJournal(a, analysis) ==
    AppCalled("save_text_journal", a, SaveTextJournalResult(files, a, now, analysis))

SaveAudioJournal(a, result, analysis) ==
    AppCalled("save_audio_journal", a, SaveAudioJournalResult(files, a, now, result, analysis))

SaveImageJournal(a, results) ==
    AppCalled("save_image_journal", a, SaveImageJournalResult(files, a, now, results))

GetEntriesByDate(a) ==
    AppCalled("get_entries_by_date", a, [fs |-> files, ret |-> GetEntriesByDateResult(files, a)])

GetWeeklySummary(a, order, summary) ==
    AppCalled("get_weekly_summary", a,
              [fs |-> files, ret |-> GetWeeklySummaryResult(files, a, now, order, summary)])

AppNext ==
    /\ nops < MaxAppOps
    /\ \/ \E t \in AppTexts, d \in AppDates, an \in Analyses :
             SaveTextJournal([text |-> t, date |-> d], an)
       \/ \E f \in {"", "f.mp3"}, d \in AppDates, r \in AudioResults, an \in Analyses :
             SaveAudioJournal([audio_file |-> f, date |-> d], r, an)
       \/ \E f \in {"", "f.png"}, d \in AppDates, r \in EmotionResults :
             SaveImageJournal([image_file |-> f, notes |-> <<>>, date |-> d], r)
       \/ \E d \in AppDates \ {None} : GetEntriesByDate([date |-> d[1]])
       \/ \E d \in AppDates, order \in WalkOrders(files), su \in Summaries :
             GetWeeklySummary([start_date |-> d], order, su)

SpecApp == InitApp /\ [][AppNext]_vars

-----------------------------------------------------------------------------
(* chat_with_journal, and the chat specification: the operations that     *)
(* write the chat history of an entry, called in any order                  *)

\* the record chat_with_journal stores for one exchange (lines 358-362)
ChatMessage(user_input, response, clock) ==
    [user |-> user_input, assistant |-> response, timestamp |-> IsoFormat(clock)]

\* the analysis of a chat-only entry (lines 380-386)
ChatAnalysis ==
    [primary_emotion |-> <<"n", "e", "u", "t", "r", "a", "l">>,
     mood_summary |-> <<"c", "h", "a", "t">>]

\* the update_entry call of lines 373-376: only the chat history is given
ChatUpdateArgs(today, chat) ==
    [date |-> today, text |-> None, emotion_analysis |-> None, tasks |-> None,
     goals |-> None, tags |-> None, chat_history |-> Some(chat), ai_summary |-> None]

\* the create_entry call of lines 388-395
ChatCreateArgs(today, chat) ==
    [text |-> <<>>, emotion_analysis |-> Some(ChatAnalysis), date |-> Some(today),
     tasks |-> None, goals |-> None, tags |-> Some(<<"chat">>), category |-> "chat",
     chat_history |-> Some(chat), ai_summary |-> None]

\* chat_with_journal; response is what the analyzer answered, None when it
\* raised; the two fixed replies are kept whole, as a text of one element.
\* The message goes to today's entry: appended to its chat history
\* by update_entry, or into a new chat-only entry.
ChatWithJournalResult(fs, a, clock, response) ==
    IF a.user_input = <<>>
    THEN Refused(fs, <<"Please enter a message to chat with your journal assistant.">>)
    ELSE IF IsNone(response)
    THEN Refused(fs, <<"I encountered an error while processing your message">>)
    ELSE LET message == ChatMessage(a.user_input, response[1], clock)
             today_entry == GetEntry(fs, clock)
             stored ==
                IF IsNone(today_entry)
                THEN CreateEntryResult(fs, ChatCreateArgs(clock, <<message>>), clock)
                ELSE UpdateEntryResult(fs,
                        ChatUpdateArgs(clock, Append(today_entry[1].content.chat_history, message)),
                        clock)
         IN  [fs |-> stored.fs, ret |-> Returned(response[1])]

ChatInputs == {<<>>, <<"h", "i">>}
Responses == {None, Some(<<"r">>)}

ChatWithJournal(a, response) ==
    AppCalled("chat_with_journal", a, ChatWithJournalResult(files, a, now, response))

ChatNext ==
    /\ nops < MaxAppOps
    /\ \/ \E u \in ChatInputs, r \in Responses : ChatWithJournal([user_input |-> u], r)
       \/ \E t \in AppTexts, d \in AppDates, an \in Analyses :
             SaveTextJournal([text |-> t, date |-> d], an)
       \/ \E a \in CreateInputs, d \in {None} : CreateEntry(WithDate(a, d))
       \/ \E a \in UpdateInputs, d \in AppClocks : UpdateEntry(WithDate(a, d))
       \/ \E a \in RecordInputs, d \in {None} : RecordEntry(WithDate(a, d))

SpecChat == InitApp /\ [][ChatNext]_vars

-----------------------------------------------------------------------------
(* The journal tabs of the interface (src/src/interface.py): the handlers   *)
(* take the id of the logged-in user and call the one module-level          *)
(* app_manager, whose JournalManager was opened on the directory "journals" *)
(* when the module was imported. AppManager defines no set_user_id, so the  *)
(* handlers' `hasattr(app_manager, 'set_user_id')` is false and the call is *)
(* skipped.                                                                 *)

\* the user ids of the handlers' user_id_state: "" when nobody is logged in
UserIds == {"", "u1", "u2"}

NotLoggedIn(what) == [success |-> FALSE, error |-> what]

\* save_entry(text, date, user_id) (lines 329-346)
InterfaceSaveEntryResult(fs, a, clock, analysis) ==
    IF a.user_id = ""
    THEN Refused(fs, NotLoggedIn("You must be logged in to save entries"))
    ELSE SaveTextJournalResult(fs, [text |-> a.text, date |-> a.date], clock, analysis)

\* get_entry(date, user_id) (lines 361-383): the first of the entries of
\* the date, or an error
InterfaceGetEntryResult(fs, a) ==
    IF a.user_id = ""
    THEN Returned(NotLoggedIn("You must be logged in to view entries"))
    ELSE LET entries == GetEntriesByDateResult(fs, [date |-> a.date]).value IN
         IF entries # <<>> THEN Returned(entries[1])
         ELSE Returned([error |-> "No entry found for this date"])

InterfaceSaveEntry(a, analysis) ==
    AppCalled("save_entry", a, InterfaceSaveEntryResult(files, a, now, analysis))

InterfaceGetEntry(a) ==
    AppCalled("get_entry", a, [fs |-> files, ret |-> InterfaceGetEntryResult(files, a)])

\* the dates typed into the date boxes
InterfaceDates ==
    {<<"2", "0", "2", "5", "-", "0", "1", "-", "0", "1">>,
     <<"2", "0", "2", "5", "-", "0", "1", "-", "0", "2">>,
     <<>>}

InterfaceNext ==
    /\ nops < MaxAppOps
    /\ \/ \E u \in UserIds, t \in AppTexts, d \in InterfaceDates, an \in Analyses :
             InterfaceSaveEntry([text |-> t, date |-> Some(d), user_id |-> u], an)
       \/ \E u \in UserIds, d \in InterfaceDates :
             InterfaceGetEntry([date |-> d, user_id |-> u])

SpecInterface == InitApp /\ [][InterfaceNext]_vars

-----------------------------------------------------------------------------
(* UserManager (src/src/user_manager.py): a directory per user under       *)
(* users_dir, holding user_data.json and the user's journals directory.     *)
(* users maps a user id to the content of its user_data.json, dirs is the   *)
(* set of directories that exist: <<u>> and <<u, "journals">>.              *)

\* dt + timedelta(hours=n)
RECURSIVE AddHours(_, _)
AddHours(dt, n) ==
    IF n = 0 THEN dt
    ELSE IF dt.h < 23 THEN AddHours([dt EXCEPT !.h = @ + 1], n - 1)
    ELSE AddHours([NextDay(dt) EXCEPT !.h = 0], n - 1)

\* dt + timedelta(seconds=n), for whole hours
AddSeconds(dt, n) == AddHours(dt, n \div 3600)

\* a < b on datetimes
DtLess(a, b) == DtLeq(a, b) /\ a # b

\* whether datetime.fromisoformat accepts s, a text in the format IsoFormat
\* writes
IsoAccepts(s) ==
    /\ Len(s) = 20
    /\ s[11] = "T" /\ s[14] = "."
    /\ StrpAccepts(SubSeq(s, 1, 10))
    /\ \A i \in {12, 13} \cup 15..20 : IsDigit(s[i])
    /\ ToInt(SubSeq(s, 12, 13)) < 24

\* datetime.fromisoformat(s)
FromIsoFormat(s) ==
    [Strptime(SubSeq(s, 1, 10)) EXCEPT !.h = ToInt(SubSeq(s, 12, 13)),
                                       !.us = ToInt(SubSeq(s, 15, 20))]

\* the number of days from day a to day b, a not after b
RECURSIVE DaysBetween(_, _)
DaysBetween(a, b) == IF DayOf(a) = DayOf(b) THEN 0 ELSE 1 + DaysBetween(NextDay(a), b)

\* time.time() at the clock dt, in whole seconds since the last day of 2024
EpochOrigin == [y |-> 2024, m |-> 12, d |-> 31, h |-> 0, us |-> 0]
Epoch(dt) == (DaysBetween(EpochOrigin, dt) * 24 + dt.h) * 3600

\* a JSON value that is a string, and one that is a number
StrValue(s) == [str |-> s]
NumValue(n) == [num |-> n]
IsStr(v) == "str" \in DOMAIN v

\* _get_user_dir: the path, with mkdir(parents=True, exist_ok=True)
GetUserDir(ds, u) == ds \cup {<<u>>}

\* _get_user_journal_dir: os.path.join(_get_user_dir(u), "journals"); the
\* joined path is returned and nothing more is created
GetUserJournalDirResult(us, ds, u) ==
    [users |-> us, dirs |-> GetUserDir(ds, u), ret |-> Returned(<<u, "journals">>)]

\* get_user_journal_manager_path
GetUserJournalManagerPathResult(us, ds, u) == GetUserJournalDirResult(us, ds, u)

\* get_user_data: the stored dictionary, or None on FileNotFoundError
GetUserData(us, u) == IF u \in DOMAIN us THEN Some(us[u]) ELSE None

GetUserDataResult(us, ds, u) ==
    [users |-> us, dirs |-> GetUserDir(ds, u), ret |-> Returned(GetUserData(us, u))]

\* d.get(key, "")
GetOrEmpty(d, key) == IF key \in DOMAIN d THEN d[key] ELSE ""

\* `user_info.get("preferred_username") or user_info.get("sub")`: None when
\* the user info has neither
UserIdOf(info) ==
    IF GetOrEmpty(info, "preferred_username") # "" THEN Some(info.preferred_username)
    ELSE IF GetOrEmpty(info, "sub") # "" THEN Some(info.sub)
    ELSE None

\* token_data.get("expires_in", 86400)
ExpiresIn(token) == IF "expires_in" \in DOMAIN token THEN token.expires_in ELSE 86400

\* the dictionary store_user_session writes (lines 118-132)
UserData(u, info, token, clock) ==
    [user_id |-> u,
     username |-> GetOrEmpty(info, "preferred_username"),
     name |-> GetOrEmpty(info, "name"),
     email |-> GetOrEmpty(info, "email"),
     avatar |-> GetOrEmpty(info, "picture"),
     auth |-> [access_token |-> GetOrEmpty(token, "access_token"),
               id_token |-> GetOrEmpty(token, "id_token"),
               refresh_token |-> GetOrEmpty(token, "refresh_token"),
               expires_at |-> StrValue(IsoFormat(AddSeconds(clock, ExpiresIn(token))))],
     created_at |-> IsoFormat(clock),
     last_login |-> IsoFormat(clock)]

\* writing user_data.json of user u
WriteUserData(us, u, data) ==
    [v \in (DOMAIN us) \cup {u} |-> IF v = u THEN data ELSE us[v]]

\* store_user_session: with no user id os.path.join raises TypeError before
\* anything is created
StoreUserSessionResult(us, ds, info, token, clock) ==
    LET user_id == UserIdOf(info) IN
    IF IsNone(user_id)
    THEN [users |-> us, dirs |-> ds, ret |-> Raised("TypeError")]
    ELSE [users |-> WriteUserData(us, user_id[1], UserData(user_id[1], info, token, clock)),
          dirs |-> ds \cup {<<user_id[1]>>, <<user_id[1], "journals">>},
          ret |-> Returned(user_id[1])]

\* update_last_login
UpdateLastLoginResult(us, ds, u, clock) ==
    LET user_data == GetUserData(us, u) IN
    [users |-> IF IsNone(user_data) \/ DOMAIN user_data[1] = {} THEN us
               ELSE WriteUserData(us, u, [k \in DOMAIN user_data[1] \cup {"last_login"} |->
                        IF k = "last_login" THEN IsoFormat(clock) ELSE user_data[1][k]]),
     dirs |-> GetUserDir(ds, u),
     ret |-> Returned(None)]

\* is_session_valid: what the call gives for the stored dictionary. A
\* missing expires_at is a KeyError and a text that is no date a ValueError,
\* both caught; an expires_at that is no str makes fromisoformat raise
\* TypeError, which is not caught
IsSessionValid(us, u, clock) ==
    LET user_data == GetUserData(us, u) IN
    IF IsNone(user_data) \/ DOMAIN user_data[1] = {} \/ "auth" \notin DOMAIN user_data[1]
    THEN Returned(FALSE)
    ELSE IF "expires_at" \notin DOMAIN user_data[1].auth THEN Returned(FALSE)
    ELSE LET expires_at == user_data[1].auth.expires_at IN
         IF ~IsStr(expires_at) THEN Raised("TypeError")
         ELSE IF ~IsoAccepts(expires_at.str) THEN Returned(FALSE)
         ELSE Returned(DtLess(clock, FromIsoFormat(expires_at.str)))

IsSessionValidResult(us, ds, u, clock) ==
    [users |-> us, dirs |-> GetUserDir(ds, u), ret |-> IsSessionValid(us, u, clock)]

\* the user ids the operations are called with
UserNames == {"u1", "u2"}

\* what the identity provider tells about a user: with a preferred
\* username, with a subject only, with neither
UserInfos ==
    {[preferred_username |-> "u1", sub |-> "s1", name |-> "N1", email |-> "e1"],
     [sub |-> "u2", name |-> "N2"],
     [name |-> "N3"]}

\* the token responses: expiring at once, in an hour, or with no expires_in
TokenData ==
    {[access_token |-> "a0", expires_in |-> 0],
     [access_token |-> "a1", id_token |-> "i1", expires_in |-> 3600],
     [access_token |-> "a2"]}

UserClocks == {[y |-> 2025, m |-> 1, d |-> 1, h |-> 23, us |-> 0]}

\* the dictionary test_user_manager writes for its user (test_auth.py lines
\* 70-82): the times are numbers, time.time()
TestUserData(u, clock) ==
    [user_id |-> u, username |-> "test_user", name |-> "Test User",
     auth |-> [access_token |-> "fake_token", id_token |-> "fake_id_token",
               refresh_token |-> "fake_refresh_token",
               expires_at |-> NumValue(Epoch(clock) + 3600)],
     created_at |-> Epoch(clock), last_login |-> Epoch(clock)]

\* the user stores the UserManager is opened on: empty, one left by
\* store_user_session, one left by the test, and one whose dictionary has
\* no auth, or an expires_at that is no date
UserStores ==
    LET c == CHOOSE x \in UserClocks : TRUE
        stored == UserData("u1", CHOOSE i \in UserInfos : UserIdOf(i) = Some("u1"),
                           CHOOSE t \in TokenData : "expires_in" \notin DOMAIN t, c)
    IN  {<<>>,
         [u \in {"u1"} |-> stored],
         [u \in {"u1"} |-> TestUserData("u1", c)],
         [u \in {"u1"} |-> [user_id |-> "u1"]],
         [u \in {"u1"} |-> [stored EXCEPT !.auth.expires_at = StrValue(<<"x">>)]]}

InitUser ==
    /\ users \in UserStores
    /\ dirs = {<<u>> : u \in DOMAIN users}
    /\ now \in UserClocks
    /\ files = <<>>
    /\ call = NoCall
    /\ ret = Returned(None)
    /\ prev = [call |-> NoCall, ret |-> Returned(None)]
    /\ written = {}
    /\ nops = 0
    /\ procs = <<>> /\ sessions = <<>>

\* the bookkeeping of a UserManager call
UserCalled(op, a, r) ==
    /\ users' = r.users
    /\ dirs' = r.dirs
    /\ ret' = r.ret
    /\ call' = [op |-> op, args |-> a, clock |-> now]
    /\ prev' = [call |-> call, ret |-> ret]
    /\ nops' = nops + 1
    /\ now' = [now EXCEPT !.us = @ + 1]
    /\ UNCHANGED <<files, written, procs, sessions>>

GetUserJournalDir(u) ==
    UserCalled("_get_user_journal_dir", [user_id |-> u], GetUserJournalDirResult(users, dirs, u))

GetUserJournalManagerPath(u) ==
    UserCalled("get_user_journal_manager_path", [user_id |-> u],
               GetUserJournalManagerPathResult(users, dirs, u))

GetUserDataCall(u) ==
    UserCalled("get_user_data", [user_id |-> u], GetUserDataResult(users, dirs, u))

StoreUserSession(info, token) ==
    UserCalled("store_user_session", [user_info |-> info, token_data |-> token],
               StoreUserSessionResult(users, dirs, info, token, now))

UpdateLastLogin(u) ==
    UserCalled("update_last_login", [user_id |-> u], UpdateLastLoginResult(users, dirs, u, now))

IsSessionValidCall(u) ==
    UserCalled("is_session_valid", [user_id |-> u], IsSessionValidResult(users, dirs, u, now))

UserNext ==
    /\ nops < MaxUserOps
    /\ \/ \E u \in UserNames : GetUserJournalDir(u)
       \/ \E u \in UserNames : GetUserJournalManagerPath(u)
       \/ \E u \in UserNames : GetUserDataCall(u)
       \/ \E info \in UserInfos, token \in TokenData : StoreUserSession(info, token)
       \/ \E u \in UserNames : UpdateLastLogin(u)
       \/ \E u \in UserNames : IsSessionValidCall(u)

SpecUser == InitUser /\ [][UserNext]_vars

-----------------------------------------------------------------------------
(* The login flow (src/src/auth_interface.py): handle_login_start opens a   *)
(* pending session in SESSION_STATES, handle_login_callback completes it    *)
(* and stores the user session, check_login_status and logout work on the   *)
(* stored user data. A uuid4 is a value never drawn before: the model       *)
(* numbers the draws by the count of operations called so far.              *)

\* str(uuid.uuid4()) for the session id and for the state of a login start
NewSessionId(n) == 2 * n + 1
NewState(n) == 2 * n + 2

\* handle_login_start: the session is stored before the login URL is looked
\* at; configured is whether OAUTH_CLIENT_ID is set
LoginStartResult(ss, n, configured) ==
    LET session_id == NewSessionId(n) IN
    [sessions |-> [k \in (DOMAIN ss) \cup {session_id} |->
                      IF k = session_id THEN [state |-> NewState(n)] ELSE ss[k]],
     ret |-> Returned(IF configured
                      THEN [session_id |-> session_id, login_url |-> "url"]
                      ELSE [session_id |-> session_id, login_url |-> "",
                            error |-> "Authentication not configured"])]

LoginFailure(msg) == [success |-> FALSE, error |-> msg, logged_in |-> FALSE]

\* what the identity provider answers: an error, or a dictionary
ProviderError == [error |-> "invalid_grant"]

Unchanged(ss, us, ds, result) == [sessions |-> ss, users |-> us, dirs |-> ds, ret |-> Returned(result)]

\* a variant of LoginCallbackResult: the state parameter is not compared
\* with the state of the session
LoginCallbackAnyState(ss, us, ds, a, token, info, clock) ==
    IF IsNone(a.code) \/ IsNone(a.state) \/ IsNone(a.session_id)
    THEN Unchanged(ss, us, ds, LoginFailure("Missing required parameters"))
    ELSE IF a.session_id[1] \notin DOMAIN ss
    THEN Unchanged(ss, us, ds, LoginFailure("Invalid session"))
    ELSE IF "error" \in DOMAIN token
    THEN Unchanged(ss, us, ds, LoginFailure(token.error))
    ELSE IF "error" \in DOMAIN info
    THEN Unchanged(ss, us, ds, LoginFailure(info.error))
    ELSE LET stored == StoreUserSessionResult(us, ds, info, token, clock) IN
         IF stored.ret.raised # ""
         THEN Unchanged(ss, us, ds, LoginFailure(stored.ret.raised))
         ELSE [sessions |-> [k \in (DOMAIN ss) \ {a.session_id[1]} |-> ss[k]],
               users |-> stored.users,
               dirs |-> stored.dirs,
               ret |-> Returned([success |-> TRUE, user_id |-> stored.ret.value,
                                 username |-> GetOrEmpty(info, "preferred_username"),
                                 logged_in |-> TRUE])]

\* a variant of LoginCallbackResult: the pending session is kept after the
\* user session is stored
LoginCallbackKeepSession(ss, us, ds, a, token, info, clock) ==
    IF IsNone(a.code) \/ IsNone(a.state) \/ IsNone(a.session_id)
    THEN Unchanged(ss, us, ds, LoginFailure("Missing required parameters"))
    ELSE IF a.session_id[1] \notin DOMAIN ss
    THEN Unchanged(ss, us, ds, LoginFailure("Invalid session"))
    ELSE IF a.state[1] # ss[a.session_id[1]].state
    THEN Unchanged(ss, us, ds, LoginFailure("Invalid state parameter"))
    ELSE IF "error" \in DOMAIN token
    THEN Unchanged(ss, us, ds, LoginFailure(token.error))
    ELSE IF "error" \in DOMAIN info
    THEN Unchanged(ss, us, ds, LoginFailure(info.error))
    ELSE LET stored == StoreUserSessionResult(us, ds, info, token, clock) IN
         IF stored.ret.raised # ""
         THEN Unchanged(ss, us, ds, LoginFailure(stored.ret.raised))
         ELSE [sessions |-> ss,
               users |-> stored.users,
               dirs |-> stored.dirs,
               ret |-> Returned([success |-> TRUE, user_id |-> stored.ret.value,
                                 username |-> GetOrEmpty(info, "preferred_username"),
                                 logged_in |-> TRUE])]

\* handle_login_callback; token and info are what the identity provider
\* answers to the code and to the access token. An exception of
\* store_user_session is caught at line 197 and reported as a failure, with
\* the pending session still there.
LoginCallbackResult(ss, us, ds, a, token, info, clock) ==
    IF IsNone(a.code) \/ IsNone(a.state) \/ IsNone(a.session_id)
    THEN Unchanged(ss, us, ds, LoginFailure("Missing required parameters"))
    ELSE IF a.session_id[1] \notin DOMAIN ss
    THEN Unchanged(ss, us, ds, LoginFailure("Invalid session"))
    ELSE IF a.state[1] # ss[a.session_id[1]].state
    THEN Unchanged(ss, us, ds, LoginFailure("Invalid state parameter"))
    ELSE IF "error" \in DOMAIN token
    THEN Unchanged(ss, us, ds, LoginFailure(token.error))
    ELSE IF "error" \in DOMAIN info
    THEN Unchanged(ss, us, ds, LoginFailure(info.error))
    ELSE LET stored == StoreUserSessionResult(us, ds, info, token, clock) IN
         IF stored.ret.raised # ""
         THEN Unchanged(ss, us, ds, LoginFailure(stored.ret.raised))
         ELSE [sessions |-> [k \in (DOMAIN ss) \ {a.session_id[1]} |-> ss[k]],
               users |-> stored.users,
               dirs |-> stored.dirs,
               ret |-> Returned([success |-> TRUE, user_id |-> stored.ret.value,
                                 username |-> GetOrEmpty(info, "preferred_username"),
                                 logged_in |-> TRUE])]

\* check_login_status(user_id): a valid session has its last_login updated
CheckLoginStatusResult(ss, us, ds, a, clock) ==
    IF IsNone(a.user_id) THEN Unchanged(ss, us, ds, [logged_in |-> FALSE])
    ELSE LET u == a.user_id[1]
             valid == IsSessionValid(us, u, clock)
         IN  IF valid.raised # ""
             THEN [sessions |-> ss, users |-> us, dirs |-> GetUserDir(ds, u), ret |-> valid]
             ELSE IF ~valid.value
             THEN Unchanged(ss, us, GetUserDir(ds, u), [logged_in |-> FALSE])
             ELSE LET updated == UpdateLastLoginResult(us, ds, u, clock).users IN
                  [sessions |-> ss, users |-> updated, dirs |-> GetUserDir(ds, u),
                   ret |-> Returned([logged_in |-> TRUE, user_id |-> u,
                                     username |-> GetOrEmpty(updated[u], "username"),
                                     name |-> GetOrEmpty(updated[u], "name")])]

\* the auth dictionary logout writes (lines 246-251)
LoggedOutAuth(clock) ==
    [access_token |-> "", id_token |-> "", refresh_token |-> "",
     expires_at |-> StrValue(IsoFormat(clock))]

\* a variant of LogoutResult: the tokens are cleared and the expiry is left
\* as it was
LogoutKeepExpiry(ss, us, ds, a, clock) ==
    IF IsNone(a.user_id)
    THEN Unchanged(ss, us, ds, [success |-> TRUE, message |-> "No active session to log out"])
    ELSE LET u == a.user_id[1]
             user_data == GetUserData(us, u)
         IN  [sessions |-> ss,
              users |-> IF IsNone(user_data) \/ "auth" \notin DOMAIN user_data[1] THEN us
                        ELSE WriteUserData(us, u,
                                [user_data[1] EXCEPT !.auth =
                                    [LoggedOutAuth(clock) EXCEPT !.expires_at = user_data[1].auth.expires_at]]),
              dirs |-> GetUserDir(ds, u),
              ret |-> Returned([success |-> TRUE, message |-> "Logged out successfully"])]

\* logout(user_id): the auth dictionary of a stored user is replaced, the
\* rest of the user data kept
LogoutResult(ss, us, ds, a, clock) ==
    IF IsNone(a.user_id)
    THEN Unchanged(ss, us, ds, [success |-> TRUE, message |-> "No active session to log out"])
    ELSE LET u == a.user_id[1]
             user_data == GetUserData(us, u)
         IN  [sessions |-> ss,
              users |-> IF IsNone(user_data) \/ "auth" \notin DOMAIN user_data[1] THEN us
                        ELSE WriteUserData(us, u, [user_data[1] EXCEPT !.auth = LoggedOutAuth(clock)]),
              dirs |-> GetUserDir(ds, u),
              ret |-> Returned([success |-> TRUE, message |-> "Logged out successfully"])]

InitAuth ==
    /\ sessions = <<>>
    /\ users = <<>>
    /\ dirs = {}
    /\ now \in UserClocks
    /\ files = <<>>
    /\ call = NoCall
    /\ ret = Returned(None)
    /\ prev = [call |-> NoCall, ret |-> Returned(None)]
    /\ written = {}
    /\ nops = 0
    /\ procs = <<>>

\* the bookkeeping of a call of the login flow
AuthCalled(op, a, r) ==
    /\ sessions' = r.sessions
    /\ users' = r.users
    /\ dirs' = r.dirs
    /\ ret' = r.ret
    /\ call' = [op |-> op, args |-> a, clock |-> now]
    /\ prev' = [call |-> call, ret |-> ret]
    /\ nops' = nops + 1
    /\ now' = [now EXCEPT !.us = @ + 1]
    /\ UNCHANGED <<files, written, procs>>

HandleLoginStart(configured) ==
    AuthCalled("handle_login_start", [configured |-> configured],
               [users |-> users, dirs |-> dirs] @@ LoginStartResult(sessions, nops, configured))

HandleLoginCallback(a, token, info) ==
    AuthCalled("handle_login_callback", a,
               LoginCallbackResult(sessions, users, dirs, a, token, info, now))

CheckLoginStatus(a) ==
    AuthCalled("check_login_status", a, CheckLoginStatusResult(sessions, users, dirs, a, now))

Logout(a) ==
    AuthCalled("logout", a, LogoutResult(sessions, users, dirs, a, now))

AuthStoreUserSession(info, token) ==
    AuthCalled("store_user_session", [user_info |-> info, token_data |-> token],
               [sessions |-> sessions] @@ StoreUserSessionResult(users, dirs, info, token, now))

AuthIsSessionValid(u) ==
    AuthCalled("is_session_valid", [user_id |-> u],
               [sessions |-> sessions] @@ IsSessionValidResult(users, dirs, u, now))

\* the session ids and states a callback can bring: those of the pending
\* sessions, those of the last callback (a replay), one that was never
\* issued, and none
KnownSessionIds ==
    {None, Some(0)} \cup {Some(k) : k \in DOMAIN sessions}
        \cup (IF call.op = "handle_login_callback" THEN {call.args.session_id} ELSE {})

KnownStates ==
    {None, Some(0)} \cup {Some(sessions[k].state) : k \in DOMAIN sessions}
        \cup (IF call.op = "handle_login_callback" THEN {call.args.state} ELSE {})

Codes == {None, Some("c")}

\* the user ids the handlers are called with: None when nobody is logged in
OptUserNames == {None} \cup {Some(u) : u \in UserNames}

AuthNext ==
    /\ nops < MaxAuthOps
    /\ \/ \E configured \in BOOLEAN : HandleLoginStart(configured)
       \/ \E sid \in KnownSessionIds, st \in KnownStates, code \in Codes,
             token \in {ProviderError} \cup TokenData, info \in {ProviderError} \cup UserInfos :
             HandleLoginCallback([session_id |-> sid, code |-> code, state |-> st], token, info)
       \/ \E u \in OptUserNames : CheckLoginStatus([user_id |-> u])
       \/ \E u \in OptUserNames : Logout([user_id |-> u])
       \/ \E info \in UserInfos, token \in TokenData : AuthStoreUserSession(info, token)
       \/ \E u \in UserNames : AuthIsSessionValid(u)

SpecAuth == InitAuth /\ [][AuthNext]_vars

-----------------------------------------------------------------------------
(* Two writers on one date: record_entry run by two threads (or processes)  *)
(* on the same journal directory. Nothing in journal_manager.py locks a     *)
(* file, so the reads and the writes of the two calls interleave. A write   *)
(* is two steps: open(file_path, 'w') truncates the file, and the text      *)
(* json.dump produced is written from offset 0 when the with block closes   *)
(* the file (documents of this size stay in the io buffer until then).      *)

\* the length of the JSON text of a string: the quotes, and two characters
\* for each of '"', '\' and a newline
RECURSIVE JsonStrLen(_)
JsonStrLen(s) ==
    IF s = <<>> THEN 2
    ELSE (IF Head(s) \in {"\"", "\\", "\n"} THEN 2 ELSE 1) + JsonStrLen(Tail(s))

\* the number of decimal digits of a natural number
RECURSIVE Digits(_)
Digits(n) == IF n < 10 THEN 1 ELSE 1 + Digits(n \div 10)

RECURSIVE SumSeq(_)
SumSeq(q) == IF q = <<>> THEN 0 ELSE Head(q) + SumSeq(Tail(q))

\* json.dump(indent=2) of a container at nesting depth k whose items have
\* the lengths q: each item on a line of its own, indented by 2 * (k + 1)
JsonBlockLen(q, k) ==
    IF q = <<>> THEN 2
    ELSE 2 + SumSeq(q) + Len(q) * (2 * (k + 1)) + 2 * (Len(q) - 1) + 1 + 2 * k + 1

\* a member of an object: the key in quotes, ": " and the value
JsonMemberLen(keylen, vlen) == keylen + 4 + vlen

\* a list of the model's tokens, each a two-character string
JsonListLen(l, k) == JsonBlockLen([i \in 1..Len(l) |-> 4], k)

\* the ai_summary token: [] and "" are two characters, any other summary a
\* two-character string
JsonSummaryLen(tok) == IF tok \in {"[]", ""} THEN 2 ELSE 4

\* an analysis: null, {} or an object of strings
JsonAnalysisLen(o) ==
    IF IsNone(o) THEN 4
    ELSE IF o[1] = EmptyDict THEN 2
    ELSE LET keys == DOMAIN o[1]
             keylen == [primary_emotion |-> 15, note |-> 4]
             order == CHOOSE q \in [1..Cardinality(keys) -> keys] :
                          \A x \in keys : \E i \in DOMAIN q : q[i] = x
         IN  JsonBlockLen([i \in DOMAIN order |->
                 JsonMemberLen(keylen[order[i]], JsonStrLen(o[1][order[i]]))], 1)

JsonBoolLen(b) == IF b THEN 4 ELSE 5

\* the number of characters of a category
CategoryLen(c) == IF c = "weekly" THEN 6 ELSE IF c = "chat" THEN 4 ELSE 5

\* the length of json.dump(entry, f, indent=2, ensure_ascii=False)
DumpLen(doc) ==
    LET content ==
            JsonBlockLen(
                <<JsonMemberLen(4, JsonStrLen(doc.content.text)),
                  JsonMemberLen(5, JsonListLen(doc.content.tasks, 2)),
                  JsonMemberLen(5, JsonListLen(doc.content.goals, 2)),
                  JsonMemberLen(4, JsonListLen(doc.content.tags, 2)),
                  JsonMemberLen(12, JsonListLen(doc.content.chat_history, 2)),
                  JsonMemberLen(10, JsonSummaryLen(doc.content.ai_summary))>>, 1)
        metadata ==
            JsonBlockLen(
                <<JsonMemberLen(13, JsonStrLen(doc.metadata.last_modified)),
                  JsonMemberLen(10, Digits(doc.metadata.word_count)),
                  JsonMemberLen(9, JsonBoolLen(doc.metadata.has_tasks)),
                  JsonMemberLen(9, JsonBoolLen(doc.metadata.has_goals)),
                  JsonMemberLen(16, JsonBoolLen(doc.metadata.has_chat_history)),
                  JsonMemberLen(14, JsonBoolLen(doc.metadata.has_ai_summary))>>, 1)
    IN  JsonBlockLen(
            <<JsonMemberLen(4, JsonStrLen(doc.date)),
              JsonMemberLen(9, JsonStrLen(doc.timestamp)),
              JsonMemberLen(8, 2 + CategoryLen(doc.category)),
              JsonMemberLen(7, content),
              JsonMemberLen(16, JsonAnalysisLen(doc.emotion_analysis)),
              JsonMemberLen(8, metadata)>>, 0)

\* the length of a file: of the document it holds, or of the text that is
\* no document
FileLen(content) == IF content.parses THEN DumpLen(content.value) ELSE content.len

\* a file that holds no JSON document: its length is all that is kept
NoDocument(n) == [parses |-> FALSE, value |-> <<>>, len |-> n]

\* open(file_path, 'w'): the file is created, or truncated to length zero
OpenForWriting(fs, date) ==
    LET p == GetJournalPath(date) IN
    [q \in (DOMAIN fs) \cup {p} |-> IF q = p THEN NoDocument(0) ELSE fs[q]]

\* closing the file writes the buffered text at this writer's offset 0: over
\* a file that is no longer than the text the file becomes the text; over a
\* longer file (written by the other writer since the open) the tail of
\* that file stays after the text, and the whole is no JSON document
CloseWritten(fs, entry, date) ==
    LET p == GetJournalPath(date)
        text == JsonDump(entry)
    IN  [fs EXCEPT ![p] = IF FileLen(fs[p]) <= FileLen(text) THEN text
                          ELSE NoDocument(FileLen(fs[p]))]

\* the two writers, the date they write to and the texts they record
Writers == {"A", "B"}
RaceDate == [y |-> 2025, m |-> 1, d |-> 1, h |-> 12, us |-> 0]
RaceTexts == {<<"a">>, <<"b", "b", "b">>}

\* a writer about to call record_entry(text, date=RaceDate)
Starting(t) ==
    [pc |-> "get_entry", args |-> WithDate(RecordDefaults(t), Some(RaceDate)),
     merged |-> None, pending |-> None]

\* the store the writers start on: empty, or holding an entry of the date
RaceStores ==
    {<<>>} \cup
    {CreateEntryResult(<<>>, CreateArgs(Starting(t).args, RaceDate), c).fs :
        t \in {<<"o">>}, c \in StartTimes}

InitRace ==
    /\ files \in RaceStores
    /\ now \in StartTimes
    /\ call = NoCall
    /\ ret = Returned(None)
    /\ prev = [call |-> NoCall, ret |-> Returned(None)]
    /\ written = {}
    /\ nops = 0
    /\ procs \in [Writers -> {Starting(t) : t \in RaceTexts}]
    /\ sessions = <<>> /\ users = <<>> /\ dirs = {}

\* the bookkeeping of one step of writer w
Stepped(w, step, fs, r, p) ==
    /\ files' = fs
    /\ procs' = [procs EXCEPT ![w] = p]
    /\ call' = [op |-> "record_entry", args |-> procs[w].args, writer |-> w, step |-> step]
    /\ ret' = r
    /\ prev' = [call |-> call, ret |-> ret]
    /\ now' = [now EXCEPT !.us = @ + 1]
    /\ UNCHANGED <<written, nops, sessions, users, dirs>>

\* record_entry's get_entry (line 244): with no entry the call goes on to
\* create_entry, which builds the new entry; with an entry it computes the
\* merged arguments; a file that is no JSON document makes json.load raise
\* JSONDecodeError, which get_entry does not catch
RecordGetEntry(w) ==
    LET me == procs[w]
        p == GetJournalPath(RaceDate)
    IN  /\ me.pc = "get_entry"
        /\ IF p \notin DOMAIN files
           THEN Stepped(w, "get_entry", files, ret,
                    [me EXCEPT !.pc = "open",
                               !.pending = Some(NewEntry(CreateArgs(me.args, RaceDate), RaceDate, now))])
           ELSE IF ~files[p].parses
           THEN Stepped(w, "get_entry", files, Raised("JSONDecodeError"),
                    [me EXCEPT !.pc = "raised"])
           ELSE Stepped(w, "get_entry", files, ret,
                    [me EXCEPT !.pc = "update_entry",
                               !.merged = Some(MergeArgs(JsonLoad(files[p]), me.args, RaceDate))])

\* update_entry's own get_entry (line 117) and the changes it makes to the
\* document it has just read
UpdateGetEntry(w) ==
    LET me == procs[w]
        p == GetJournalPath(RaceDate)
    IN  /\ me.pc = "update_entry"
        /\ IF ~files[p].parses
           THEN Stepped(w, "update_entry", files, Raised("JSONDecodeError"),
                    [me EXCEPT !.pc = "raised"])
           ELSE Stepped(w, "update_entry", files, ret,
                    [me EXCEPT !.pc = "open",
                               !.pending = Some(UpdatedEntry(JsonLoad(files[p]), me.merged[1], now))])

\* _save_entry: open(file_path, 'w') (line 95)
SaveOpen(w) ==
    LET me == procs[w] IN
    /\ me.pc = "open"
    /\ Stepped(w, "open", OpenForWriting(files, RaceDate), ret, [me EXCEPT !.pc = "close"])

\* _save_entry: json.dump and the end of the with block (lines 95-96)
SaveClose(w) ==
    LET me == procs[w] IN
    /\ me.pc = "close"
    /\ Stepped(w, "close", CloseWritten(files, me.pending[1], RaceDate),
               Returned(me.pending), [me EXCEPT !.pc = "returned"])

RaceNext ==
    \E w \in Writers :
        \/ RecordGetEntry(w)
        \/ UpdateGetEntry(w)
        \/ SaveOpen(w)
        \/ SaveClose(w)

SpecRace == InitRace /\ [][RaceNext]_vars

-----------------------------------------------------------------------------
(* Vocabulary of the properties *)

\* the stored documents
Docs == {JsonLoad(files[p]) : p \in DOMAIN files}

\* the calendar day a document's date field names
DocDay(doc) == DayOf(Strptime(doc.date))

\* the paths of the documents stored for a calendar day, in a store fs
PathsOfDay(fs, day) == {p \in DOMAIN fs : DocDay(JsonLoad(fs[p])) = day}

\* midnight of a calendar day
Midnight(day) == [y |-> day[1], m |-> day[2], d |-> day[3], h |-> 0, us |-> 0]

\* the number of whitespace-separated tokens of a text: the positions where
\* a token starts
TokenCount(s) ==
    Cardinality({i \in 1..Len(s) : ~IsSpace(s[i]) /\ (i = 1 \/ IsSpace(s[i - 1]))})

\* an optional list argument as stored: nothing or an empty list is []
GivenList(o) == IF o = None THEN <<>> ELSE o[1]

\* an optional summary as stored by create_entry: nothing or "" is []
GivenSummary(o) == IF o \in {None, Some("")} THEN "[]" ELSE o[1]

\* the text with every newline written as backslash-n and every square
\* bracket dropped, character by character
RECURSIVE Escaped(_)
Escaped(s) ==
    IF s = <<>> THEN <<>>
    ELSE (CASE Head(s) = "\n" -> <<"\\", "n">>
            [] Head(s) \in {"[", "]"} -> <<>>
            [] OTHER -> <<Head(s)>>) \o Escaped(Tail(s))

\* n copies of the sequence s, one after the other
RECURSIVE Copies(_, _)
Copies(s, n) == IF n = 0 THEN <<>> ELSE s \o Copies(s, n - 1)

-----------------------------------------------------------------------------
(* C1 *)

\* C1: in every reachable state no two stored documents carry the same
\* calendar date, and every day that was written has its document: a write
\* to a date that has a document never adds a second one.
C1_OneDocumentPerDate ==
    /\ \A p, q \in DOMAIN files :
          DocDay(JsonLoad(files[p])) = DocDay(JsonLoad(files[q])) => p = q
    /\ \A day \in written : Cardinality(PathsOfDay(files, day)) = 1
    /\ Cardinality(DOMAIN files) = Cardinality(written)

\* a second write reached a day that had a document, at another time of day
C1_Witness ==
    /\ call.op = "create_entry" /\ call.existed
    /\ prev.call.op = "record_entry" /\ prev.call.day = call.day
    /\ prev.call.args.date # call.args.date
    /\ Cardinality(PathsOfDay(files, call.day)) = 1

-----------------------------------------------------------------------------
(* C2 *)

\* C2: a get_entry(d) that follows create_entry(text=t, date=d) returns an
\* entry whose date field is the calendar date of d, written YYYY-MM-DD, and
\* whose metadata.word_count is the number of whitespace-separated tokens of
\* t (0 for an empty or all-whitespace text).
C2_CreateThenGet ==
    (/\ call.op = "get_entry"
     /\ prev.call.op = "create_entry"
     /\ prev.call.day = DayOf(call.args.date))
    => /\ ret.raised = "" /\ ret.value # None
       /\ Len(ret.value[1].date) = 10
       /\ DocDay(ret.value[1]) = DayOf(call.args.date)
       /\ ret.value[1].metadata.word_count = TokenCount(prev.call.args.text)

\* a text of three tokens among tabs, double spaces and a newline was
\* created and read back at another time of the same day
C2_Witness ==
    /\ call.op = "get_entry" /\ prev.call.op = "create_entry"
    /\ prev.call.day = DayOf(call.args.date)
    /\ prev.call.args.date # Some(call.args.date)
    /\ ret.value # None
    /\ ret.value[1].metadata.word_count = 3

-----------------------------------------------------------------------------
(* C3 *)

\* C3: after two create_entry calls in a row for the same date there is
\* exactly one document for that date, and its text, tasks, goals, tags,
\* chat_history, ai_summary, category and emotion_analysis are those of the
\* second call (an omitted or empty optional argument being stored as the
\* empty list): nothing of the first call is kept.
C3_LastCreateWins ==
    (/\ call.op = "create_entry"
     /\ prev.call.op = "create_entry"
     /\ prev.call.day = call.day)
    => /\ Cardinality(PathsOfDay(files, call.day)) = 1
       /\ \A p \in PathsOfDay(files, call.day) :
            LET doc == JsonLoad(files[p])
                a == call.args
            IN  /\ doc.content.text = a.text
                /\ doc.content.tasks = GivenList(a.tasks)
                /\ doc.content.goals = GivenList(a.goals)
                /\ doc.content.tags = GivenList(a.tags)
                /\ doc.content.chat_history = GivenList(a.chat_history)
                /\ doc.content.ai_summary = GivenSummary(a.ai_summary)
                /\ doc.category = a.category
                /\ doc.emotion_analysis = a.emotion_analysis

\* the second create_entry omitted what the first one supplied
C3_Witness ==
    /\ call.op = "create_entry" /\ prev.call.op = "create_entry"
    /\ prev.call.day = call.day
    /\ prev.call.args.tasks = Some(<<"t1">>) /\ call.args.tasks = None
    /\ prev.call.args.ai_summary = Some("s1") /\ call.args.ai_summary = None
    /\ Cardinality(PathsOfDay(files, call.day)) = 1

-----------------------------------------------------------------------------
(* C4 *)

\* a record_entry call on a date that holds an entry, with the stored and
\* the new analysis both mappings (a null analysis makes the call raise)
C4_RecordOnExisting ==
    /\ nops' = nops + 1
    /\ call'.op = "record_entry"
    /\ call'.args.emotion_analysis # None
    /\ PathsOfDay(files, call'.day) # {}
    /\ \A p \in PathsOfDay(files, call'.day) :
          JsonLoad(files[p]).emotion_analysis # None

-----------------------------------------------------------------------------
(* C5 *)

\* the only document of the store, after n = nops record_entry calls
C5_OneDocumentWithText(text) ==
    /\ Cardinality(DOMAIN files) = 1
    /\ Cardinality(PathsOfDay(files, call.day)) = 1
    /\ \A p \in DOMAIN files : JsonLoad(files[p]).content.text = text

\* C5 as claimed: n calls of record_entry(text=T, date=d) on a date with no
\* entry leave one document whose text is n copies of T, with the delimiter
\* between them.
C5_CopiesOfText ==
    (call.op = "record_entry" /\ call.args.emotion_analysis # None)
    => C5_OneDocumentWithText(
          Copies(call.args.text \o <<" ", "\n", " ">>, nops - 1) \o call.args.text)

\* C5 amended: n calls leave one document whose text is n - 1 copies of T
\* with newlines written as backslash-n and square brackets dropped, each
\* followed by the delimiter, and then T itself.
C5_EscapedCopiesThenText ==
    (call.op = "record_entry" /\ call.args.emotion_analysis # None)
    => C5_OneDocumentWithText(
          Copies(Escaped(call.args.text) \o <<" ", "\n", " ">>, nops - 1)
             \o call.args.text)

\* the same text, with a newline and square brackets, was recorded three
\* times: two escaped copies, then the text itself
C5_Witness ==
    /\ nops = 3 /\ call.op = "record_entry" /\ ret.raised = ""
    /\ call.args.text = <<"a", "\n", "[", "b", "]">>
    /\ C5_OneDocumentWithText(
          <<"a", "\\", "n", "b", " ", "\n", " ", "a", "\\", "n", "b", " ", "\n", " ",
            "a", "\n", "[", "b", "]">>)

-----------------------------------------------------------------------------
(* C6 *)

\* C6: get_entry(d) raises nothing; it returns None when no write was made
\* to the calendar day of d, whatever else is stored, and the document of
\* that day, whatever the time of day of d, when one was made.
C6_GetEntry ==
    call.op = "get_entry" =>
       /\ ret.raised = ""
       /\ DayOf(call.args.date) \notin written => ret.value = None
       /\ DayOf(call.args.date) \in written =>
             /\ ret.value # None
             /\ ret.value[1] \in Docs
             /\ DocDay(ret.value[1]) = DayOf(call.args.date)

\* get_entry found nothing for a day while another day of the month had a
\* document
C6_Witness ==
    /\ call.op = "get_entry" /\ ret.value = None
    /\ \E day \in written : day[2] = call.args.date.m /\ day # DayOf(call.args.date)

-----------------------------------------------------------------------------
(* C7 *)

\* C7: update_entry on a date with no stored entry returns None and leaves
\* the store as it was: no document is created and none is modified.
C7_UpdateAbsent ==
    [][(/\ nops' = nops + 1
        /\ call'.op = "update_entry"
        /\ PathsOfDay(files, call'.day) = {})
       => /\ ret' = Returned(None)
          /\ files' = files
      ]_vars

\* update_entry with every field supplied was called for a day without a
\* document while another day had one
C7_Witness ==
    /\ call.op = "update_entry" /\ ~call.existed
    /\ call.args.text = Some(<<"c">>)
    /\ ret = Returned(None)
    /\ DOMAIN files # {}
    /\ PathsOfDay(files, call.day) = {}

-----------------------------------------------------------------------------
(* Vocabulary of the search properties *)

\* the range of the last search_entries call, defaults filled in from the
\* clock the call read
RangeStart == SearchStart(call.args, call.clock)
RangeEnd == SearchEnd(call.args, call.clock)

\* calendar day <= calendar day
DayLeq(a, b) == DtLeq(Midnight(a), Midnight(b))

\* the entry's date, a midnight, lies between the two bounds
InRange(doc) ==
    DtLeq(RangeStart, Midnight(DocDay(doc))) /\ DtLeq(Midnight(DocDay(doc)), RangeEnd)

\* the entry's calendar day lies between the calendar days of the bounds
InRangeByDay(doc) ==
    DayLeq(DayOf(RangeStart), DocDay(doc)) /\ DayLeq(DocDay(doc), DayOf(RangeEnd))

Returns(doc) == \E i \in 1..Len(ret.value) : ret.value[i] = doc

-----------------------------------------------------------------------------
(* C8 *)

\* C8: for every store and every start <= end, search_entries(start, end)
\* returns stored entries, each once, in ascending order of their dates, and
\* none whose date lies before start or after end.
C8_SortedAndInRange ==
    (call.op = "search_entries" /\ DtLeq(RangeStart, RangeEnd))
    => /\ ret.raised = ""
       /\ \A i \in 1..Len(ret.value) : ret.value[i] \in Docs /\ InRange(ret.value[i])
       /\ \A i, j \in 1..Len(ret.value) :
             i < j => /\ DayLeq(DocDay(ret.value[i]), DocDay(ret.value[j]))
                      /\ ret.value[i] # ret.value[j]

\* a search over three files returned the entries of 2 and 10 January and
\* left out the one of 31 December
C8_Witness ==
    /\ call.op = "search_entries"
    /\ call.args.start_date # None /\ call.args.end_date # None
    /\ Cardinality(DOMAIN files) = 3
    /\ Len(ret.value) = 2
    /\ DocDay(ret.value[1]) = <<2025, 1, 2>>
    /\ DocDay(ret.value[2]) = <<2025, 1, 10>>
    /\ \E doc \in Docs : DocDay(doc) = <<2024, 12, 31>>

-----------------------------------------------------------------------------
(* C9 *)

\* C9 as claimed: the range is inclusive at both ends by calendar day. An
\* unfiltered search returns every entry dated on the day of the start, on
\* the day of the end or between them, whatever the time of day of the
\* bounds; with no start given, that includes the first day of the month.
C9_InclusiveByCalendarDay ==
    (/\ call.op = "search_entries"
     /\ call.args.tags = None
     /\ call.args.emotion = None)
    => \A doc \in Docs : InRangeByDay(doc) => Returns(doc)

-----------------------------------------------------------------------------
(* C10 *)

\* C10: search_entries with a non-empty tags list (and no emotion) returns
\* exactly the entries in the range that carry at least one requested tag.
C10_AnyRequestedTag ==
    (/\ call.op = "search_entries"
     /\ call.args.tags # None /\ call.args.tags[1] # <<>>
     /\ call.args.emotion = None)
    => \A doc \in Docs :
          Returns(doc) <=>
             /\ InRange(doc)
             /\ Elems(call.args.tags[1]) \cap Elems(doc.content.tags) # {}

\* a search for the tags y and z returned an entry tagged y and x, and left
\* out an entry of the range tagged x only
C10_Witness ==
    /\ call.op = "search_entries"
    /\ call.args.tags = Some(<<"y", "z">>) /\ call.args.emotion = None
    /\ \E doc \in Docs : Returns(doc) /\ doc.content.tags = <<"y", "x">>
    /\ \E doc \in Docs : ~Returns(doc) /\ InRange(doc) /\ doc.content.tags = <<"x">>

-----------------------------------------------------------------------------
(* C11 *)

\* two labels that differ at most in the case of their letters
SameLetter(c, d) ==
    \/ c = d
    \/ \E pair \in {<<"s", "S">>, <<"a", "A">>, <<"d", "D">>, <<"h", "H">>} :
          {c, d} = {pair[1], pair[2]}

SameIgnoringCase(s, t) ==
    Len(s) = Len(t) /\ \A i \in 1..Len(s) : SameLetter(s[i], t[i])

\* the entry's analysis is a mapping with a primary_emotion
HasPrimaryEmotion(doc) ==
    doc.emotion_analysis # None /\ "primary_emotion" \in DOMAIN doc.emotion_analysis[1]

\* C11: search_entries with an emotion e (and no tags) returns, without
\* raising, exactly the entries in the range whose primary_emotion equals e
\* ignoring letter case; an entry with no primary_emotion is left out.
C11_EmotionIgnoringCase ==
    (/\ call.op = "search_entries"
     /\ call.args.emotion # None /\ call.args.emotion[1] # <<>>
     /\ call.args.tags = None)
    => /\ ret.raised = ""
       /\ \A doc \in Docs :
             Returns(doc) <=>
                /\ InRange(doc)
                /\ HasPrimaryEmotion(doc)
                /\ SameIgnoringCase(doc.emotion_analysis[1].primary_emotion,
                                    call.args.emotion[1])

\* a search for SAD returned an entry whose emotion is written sad, left out
\* one of the range whose emotion is Happy and one that has no
\* primary_emotion
C11_Witness ==
    /\ call.op = "search_entries"
    /\ call.args.emotion = Some(SadUpper) /\ call.args.tags = None
    /\ \E doc \in Docs : Returns(doc) /\ doc.emotion_analysis[1].primary_emotion = Sad
    /\ \E doc \in Docs :
          /\ ~Returns(doc) /\ InRange(doc) /\ HasPrimaryEmotion(doc)
          /\ doc.emotion_analysis[1].primary_emotion = Happy
    /\ \E doc \in Docs : ~Returns(doc) /\ InRange(doc) /\ ~HasPrimaryEmotion(doc)

-----------------------------------------------------------------------------
(* Vocabulary of the scan properties *)

\* the documents the .json files of the store parse to
ParsedDocs ==
    {JsonLoad(files[p]) : p \in {q \in DOMAIN files : EndsWithJson(q.file) /\ files[q].parses}}

\* a document that is an entry: it has a date, and the date is one
WellFormed(doc) == "date" \in DOMAIN doc /\ StrpAccepts(doc.date)

\* the .json files that are not JSON
CorruptedFiles == {p \in DOMAIN files : EndsWithJson(p.file) /\ ~files[p].parses}

-----------------------------------------------------------------------------
(* C12 *)

\* C12: on a store whose .json files are entries or not JSON at all,
\* get_all_entries returns the entries, each once, in ascending order of
\* their dates; the files that are not JSON add nothing and stop nothing.
C12_ValidEntriesSorted ==
    (call.op = "get_all_entries" /\ \A doc \in ParsedDocs : WellFormed(doc))
    => /\ ret.raised = ""
       /\ Len(ret.value) = Cardinality(ParsedDocs)
       /\ \A doc \in ParsedDocs : Returns(doc)
       /\ \A i, j \in 1..Len(ret.value) :
             i < j => DayLeq(DocDay(ret.value[i]), DocDay(ret.value[j]))

\* get_all_entries returned the two entries of a store that holds them and
\* one file that is not JSON
C12_Witness ==
    /\ call.op = "get_all_entries" /\ ret.raised = ""
    /\ \A doc \in ParsedDocs : WellFormed(doc)
    /\ Cardinality(ParsedDocs) = 2
    /\ Cardinality(CorruptedFiles) = 1
    /\ Len(ret.value) = 2

-----------------------------------------------------------------------------
(* C13 *)

\* C13 as claimed: a document that is JSON but no entry is skipped by
\* search_entries and by get_all_entries: neither raises, neither returns
\* it, and each returns the entries it returns without it.
C13_MalformedSkipped ==
    /\ call.op \in {"search_entries", "get_all_entries"}
          => /\ ret.raised = ""
             /\ \A i \in 1..Len(ret.value) : WellFormed(ret.value[i])
    /\ call.op = "get_all_entries"
          => \A doc \in ParsedDocs : WellFormed(doc) => Returns(doc)
    /\ (call.op = "search_entries" /\ call.args.emotion = None)
          => \A doc \in ParsedDocs : (WellFormed(doc) /\ InRange(doc)) => Returns(doc)

-----------------------------------------------------------------------------
(* C14 *)

\* an update_entry call on a date that holds an entry
UpdateOnExisting ==
    /\ nops' = nops + 1
    /\ call'.op = "update_entry"
    /\ GetEntry(files, Midnight(call'.day)) # None

\* C14 as claimed: update_entry on an existing entry sets every field the
\* caller supplies to the supplied value, an empty value included, and the
\* returned entry is the stored one.
C14_SuppliedFieldsOverwritten ==
    [][UpdateOnExisting =>
         LET a == call'.args
             new == GetEntry(files', Midnight(call'.day))[1]
         IN  /\ ret'.value = Some(new)
             /\ a.text # None => new.content.text = a.text[1]
             /\ a.emotion_analysis # None => new.emotion_analysis = a.emotion_analysis
             /\ a.tasks # None => new.content.tasks = a.tasks[1]
             /\ a.goals # None => new.content.goals = a.goals[1]
             /\ a.tags # None => new.content.tags = a.tags[1]
             /\ a.chat_history # None => new.content.chat_history = a.chat_history[1]
             /\ a.ai_summary # None => new.content.ai_summary = a.ai_summary[1]
      ]_vars

-----------------------------------------------------------------------------
(* C15 *)

\* C15: every stored entry's metadata agrees with its content: word_count
\* is the number of whitespace-separated tokens of the text, and each has_
\* flag is true exactly when its content field is not empty.
C15_MetadataConsistent ==
    \A doc \in Docs :
        /\ doc.metadata.word_count = TokenCount(doc.content.text)
        /\ doc.metadata.has_tasks <=> doc.content.tasks # <<>>
        /\ doc.metadata.has_goals <=> doc.content.goals # <<>>
        /\ doc.metadata.has_chat_history <=> doc.content.chat_history # <<>>
        /\ doc.metadata.has_ai_summary <=> doc.content.ai_summary \notin {"", "[]"}

\* update_entry replaced a three-word text by a one-word text and emptied
\* nothing else; before that the entry had been created with tasks
C15_Witness ==
    /\ call.op = "update_entry" /\ call.existed
    /\ call.args.text = Some(<<"c">>)
    /\ prev.call.op = "create_entry" /\ prev.call.day = call.day
    /\ prev.ret.value[1].metadata.word_count = 3
    /\ ret.value[1].metadata.word_count = 1
    /\ ret.value[1].metadata.has_tasks

-----------------------------------------------------------------------------
(* C16 *)

\* the entry a date held before the call, and the one it holds after
EntryBefore == GetEntry(files, Midnight(call'.day))[1]
EntryAfter == GetEntry(files', Midnight(call'.day))[1]

-----------------------------------------------------------------------------
(* C17 *)

-----------------------------------------------------------------------------
(* C18 *)

\* C18: record_entry on a date that holds an entry merges the analysis
\* key by key: a key of the new mapping takes the new value, a key only the
\* stored mapping has keeps its value, and no other key appears; an empty
\* new mapping leaves the analysis as it was.
C18_AnalysisShallowMerge ==
    [][C4_RecordOnExisting =>
         LET new == call'.args.emotion_analysis[1]
             old == EntryBefore.emotion_analysis[1]
             merged == EntryAfter.emotion_analysis[1]
         IN  /\ EntryAfter.emotion_analysis # None
             /\ DOMAIN merged = (DOMAIN old) \cup (DOMAIN new)
             /\ \A k \in DOMAIN new : merged[k] = new[k]
             /\ \A k \in (DOMAIN old) \ (DOMAIN new) : merged[k] = old[k]
             /\ new = EmptyDict => merged = old
      ]_vars

\* an analysis with a primary_emotion and a note was recorded on an entry
\* whose analysis had another primary_emotion and an intensity
C18_Witness ==
    /\ call.op = "record_entry" /\ call.existed /\ ret.raised = ""
    /\ call.args.emotion_analysis = Some([primary_emotion |-> Happy, note |-> <<"n">>])
    /\ prev.call.op = "create_entry" /\ prev.call.day = call.day
    /\ prev.call.args.emotion_analysis =
          Some([primary_emotion |-> Sad, emotion_intensity |-> <<"5">>])
    /\ ret.value[1].emotion_analysis =
          Some([primary_emotion |-> Happy, emotion_intensity |-> <<"5">>, note |-> <<"n">>])

-----------------------------------------------------------------------------
(* C19 *)

-----------------------------------------------------------------------------
(* C20 *)

\* the operations that take a date string, and the string a call gave
DateStringOps ==
    {"save_text_journal", "save_audio_journal", "save_image_journal",
     "get_entries_by_date", "get_weekly_summary"}

DateString(c) ==
    IF c.op = "get_weekly_summary" THEN c.args.start_date
    ELSE IF c.op = "get_entries_by_date" THEN Some(c.args.date)
    ELSE c.args.date

\* a refusal: a failure that reports no date (for get_entries_by_date, which
\* returns a list, the empty list)
Refusal(op, r) ==
    /\ r.raised = ""
    /\ IF op = "get_entries_by_date" THEN r.value = <<>>
       ELSE r.value.success = FALSE /\ "start_date" \notin DOMAIN r.value

\* C20 as claimed: each operation that takes a date string answers a
\* string that is no date with a refusal, writes nothing, and puts no date
\* of its own in the place of the one it was given.
C20_UnparsableDateRejected ==
    [][(/\ nops' = nops + 1
        /\ call'.op \in DateStringOps
        /\ DateString(call') # None /\ DateString(call')[1] # <<>>
        /\ ~StrpAccepts(DateString(call')[1]))
       => /\ files' = files
          /\ Refusal(call'.op, ret')
      ]_vars


-----------------------------------------------------------------------------
(* C21: two writers on the same date *)

\* both writers are through: each has returned or raised
RaceOver == \A w \in Writers : procs[w].pc \in {"returned", "raised"}

\* the document written by the writer whose write step came last
LastWritten == ret.value[1]

\* C21: when two writers run record_entry on the same date with their read
\* and write steps interleaved, every final state holds exactly one complete
\* document for the date, equal to the full document written by the writer
\* whose write step came last.
C21_LastWriterWins ==
    (procs # <<>> /\ RaceOver /\ call.step = "close") =>
        /\ Cardinality(DOMAIN files) = 1
        /\ \A p \in DOMAIN files : files[p] = JsonDump(LastWritten)

\* both writers read the stored entry before either wrote, and the text of
\* the writer that wrote first is not in the final document
C21_LostUpdate ==
    /\ procs # <<>> /\ RaceOver
    /\ \A p \in DOMAIN files :
          /\ files[p].parses
          /\ \E w \in Writers :
                JsonLoad(files[p]).content.text = MergedText(procs[w].args.text, <<"o">>)

-----------------------------------------------------------------------------
(* C22: the chat history of an entry *)

\* s is a prefix of t
IsPrefix(s, t) == Len(s) <= Len(t) /\ SubSeq(t, 1, Len(s)) = s

\* the chat history a file holds
ChatOf(content) == JsonLoad(content).content.chat_history

\* C22: the chat history of an entry is append-only: the chat history
\* stored for a date before an operation (create_entry, update_entry,
\* record_entry, chat_with_journal, save_text_journal) is a prefix of the
\* chat history stored for it after the operation.
C22_ChatAppendOnly ==
    [][\A p \in DOMAIN files :
          /\ p \in DOMAIN files'
          /\ IsPrefix(ChatOf(files[p]), ChatOf(files'[p]))]_vars

\* a chat with the assistant was stored, and save_text_journal for the same
\* day then left the entry with no chat history
C22_ChatLostBySave ==
    /\ prev.call.op = "chat_with_journal"
    /\ prev.ret.value \in {r[1] : r \in Responses \ {None}}
    /\ call.op = "save_text_journal"
    /\ ret.value.success
    /\ written = {DayOf(now)}
    /\ \A p \in DOMAIN files : ChatOf(files[p]) = <<>>

-----------------------------------------------------------------------------
(* C23: entries are scoped per user *)

\* the last two calls were made by two distinct logged-in users, the first
\* of them a save that stored an entry
TwoUsers ==
    /\ nops = 2
    /\ prev.call.op = "save_entry"
    /\ prev.ret.value.success
    /\ call.args.user_id # ""
    /\ call.args.user_id # prev.call.args.user_id

\* the day a save with the date box d stores its entry for
SavedDay(d, clock) == DayOf(EntryDate(Some(d), clock))

\* C23: entries are scoped per user: when two distinct logged-in users each
\* save an entry for the same date through the interface, both entries
\* exist afterwards, and viewing a date as one user never returns an entry
\* saved by the other.
C23_ScopedPerUser ==
    TwoUsers =>
        /\ (call.op = "get_entry") => "error" \in DOMAIN ret.value
        /\ (/\ call.op = "save_entry"
            /\ ret.value.success
            /\ SavedDay(call.args.date[1], call.clock)
                  = SavedDay(prev.call.args.date[1], prev.call.clock))
           => Cardinality(DOMAIN files) = 2

\* one user saved an entry, and the other user viewing the date gets it
C23_OtherUsersEntry ==
    /\ TwoUsers
    /\ call.op = "get_entry"
    /\ "content" \in DOMAIN ret.value
    /\ ret.value.content.text = prev.call.args.text

-----------------------------------------------------------------------------
(* C24: is_session_valid on the stored representations of the expiry *)

\* the stored expiry v is later than the clock: a number is time.time(), a
\* text a datetime in ISO format
LaterThan(v, clock) ==
    IF IsStr(v) THEN IsoAccepts(v.str) /\ DtLess(clock, FromIsoFormat(v.str))
    ELSE v.num > Epoch(clock)

\* the last call was is_session_valid(u) for a user whose stored record has
\* an auth.expires_at later than the time of the call
ValidityAsked ==
    /\ call.op = "is_session_valid"
    /\ call.args.user_id \in DOMAIN users
    /\ "auth" \in DOMAIN users[call.args.user_id]
    /\ LaterThan(users[call.args.user_id].auth.expires_at, call.clock)

\* C24: is_session_valid(u) returns true for every user u whose stored
\* record has an auth.expires_at later than the current time, be it the
\* ISO-8601 text store_user_session writes or the number the test writes.
C24_ValidBeforeExpiry == ValidityAsked => (ret.raised = "" /\ ret.value = TRUE)

\* is_session_valid called on the record the test wrote
C24_EpochExpiry ==
    /\ ValidityAsked
    /\ ~IsStr(users[call.args.user_id].auth.expires_at)
    /\ ret.raised = "TypeError"

\* is_session_valid called on a record store_user_session wrote
C24_IsoExpiry ==
    /\ ValidityAsked
    /\ IsStr(users[call.args.user_id].auth.expires_at)
    /\ ret.raised = ""
    /\ ret.value = TRUE

-----------------------------------------------------------------------------
(* C25: the directories of a user *)

\* C25: after _get_user_journal_dir(u) or get_user_journal_manager_path(u)
\* returns, both the user's directory and the returned journals directory
\* exist on disk.
C25_JournalDirExists ==
    (call.op \in {"_get_user_journal_dir", "get_user_journal_manager_path"}) =>
        /\ <<call.args.user_id>> \in dirs
        /\ ret.value \in dirs

\* the path was returned for a user with no journals directory
C25_PathOfNoDirectory ==
    /\ call.op = "_get_user_journal_dir"
    /\ <<call.args.user_id>> \in dirs
    /\ ret.value = <<call.args.user_id, "journals">>
    /\ ret.value \notin dirs

-----------------------------------------------------------------------------
(* C28, C29: the login callback and the pending sessions *)

\* the arguments name a pending session ss holds, with the state issued for
\* it, and bring a code
NamesPending(ss, a) ==
    /\ ~IsNone(a.code) /\ ~IsNone(a.state) /\ ~IsNone(a.session_id)
    /\ a.session_id[1] \in DOMAIN ss
    /\ ss[a.session_id[1]].state = a.state[1]

\* C28: a login callback stores a user session, or reports success, only if
\* its session id names a pending session created by a login start and its
\* state parameter equals the state issued for that session; a callback
\* with an unknown session id, another session's state or a missing code or
\* state is rejected and stores no user session.
C28_OnlyPendingWithItsState ==
    [][(call'.op = "handle_login_callback") =>
          ((users' # users \/ ret'.value.success) => NamesPending(sessions, call'.args))]_vars

\* a callback was rejected for bringing the state of another pending session
C28_Witness ==
    /\ call.op = "handle_login_callback"
    /\ ~IsNone(call.args.code) /\ ~IsNone(call.args.state) /\ ~IsNone(call.args.session_id)
    /\ call.args.session_id[1] \in DOMAIN sessions
    /\ \E k \in DOMAIN sessions :
          k # call.args.session_id[1] /\ sessions[k].state = call.args.state[1]
    /\ ret.value.error = "Invalid state parameter"
    /\ users = <<>>

\* a callback completed a pending session and stored the user
C28_Completed ==
    /\ call.op = "handle_login_callback"
    /\ ret.value.success
    /\ ret.value.user_id \in DOMAIN users

\* the step is a callback that brings again the session id and the state of
\* the callback before it, which succeeded
Replay ==
    /\ call.op = "handle_login_callback"
    /\ ret.value.success
    /\ call'.op = "handle_login_callback"
    /\ call'.args.session_id = call.args.session_id
    /\ call'.args.state = call.args.state

\* C29: a pending login session is single-use on success: a callback that
\* succeeds for session id s removes s from the pending sessions, a later
\* callback replaying the same session id and state is rejected as an
\* invalid session, and a callback that fails leaves the pending sessions
\* as they were.
C29_SingleUse ==
    [][(call'.op = "handle_login_callback") =>
          /\ ret'.value.success => call'.args.session_id[1] \notin DOMAIN sessions'
          /\ ~ret'.value.success => sessions' = sessions
          /\ Replay =>
                /\ ~ret'.value.success
                /\ users' = users
                /\ ~IsNone(call'.args.code) => ret'.value.error = "Invalid session"]_vars

\* a succeeded callback was replayed and rejected
C29_Witness ==
    /\ prev.call.op = "handle_login_callback"
    /\ prev.ret.value.success
    /\ call.op = "handle_login_callback"
    /\ call.args = prev.call.args
    /\ ret.value.error = "Invalid session"

\* a callback failed on the state and the same session was then completed
C29_CompletedAfterFailure ==
    /\ prev.call.op = "handle_login_callback"
    /\ prev.ret.value.error = "Invalid state parameter"
    /\ call.op = "handle_login_callback"
    /\ call.args.session_id = prev.call.args.session_id
    /\ ret.value.success

-----------------------------------------------------------------------------
(* C30: logout *)

\* is_session_valid(u) gives True on the user store us at the time clock
Valid(us, u, clock) ==
    LET r == IsSessionValid(us, u, clock) IN r.raised = "" /\ r.value

\* the step stores a session for u: store_user_session, called directly or
\* by a login callback
StoresSessionFor(u) ==
    \/ /\ call'.op = "store_user_session"
       /\ ret'.raised = ""
       /\ ret'.value = u
    \/ /\ call'.op = "handle_login_callback"
       /\ ret'.value.success
       /\ ret'.value.user_id = u

ProfileFields == {"user_id", "username", "name", "email"}

\* C30: after logout(u) succeeds for a user u with a stored session,
\* is_session_valid(u) is false until store_user_session is called again for
\* u (no other operation makes an invalid session valid), and the logout
\* leaves the user's profile fields user_id, username, name and email
\* unchanged.
C30_InvalidAfterLogout ==
    [][\A u \in UserNames :
          /\ (/\ call'.op = "logout"
              /\ call'.args.user_id = Some(u)
              /\ u \in DOMAIN users)
             => /\ ret'.value.success
                /\ ~Valid(users', u, now')
                /\ \A k \in ProfileFields : users'[u][k] = users[u][k]
          /\ (~Valid(users, u, now) /\ Valid(users', u, now')) => StoresSessionFor(u)]_vars

\* check_login_status found the user's session valid, the user then logged
\* out, and the session is no longer valid
C30_Witness ==
    /\ prev.call.op = "check_login_status"
    /\ prev.ret.raised = ""
    /\ prev.ret.value.logged_in
    /\ call.op = "logout"
    /\ call.args.user_id = prev.call.args.user_id
    /\ ret.value.success
    /\ users[call.args.user_id[1]].auth = LoggedOutAuth(call.clock)
    /\ users[call.args.user_id[1]].name # ""
    /\ ~Valid(users, call.args.user_id[1], now)

-----------------------------------------------------------------------------
(* C26: what update_entry leaves alone *)

\* C26: update_entry on an existing entry leaves unchanged every content
\* field the caller did not supply (with its metadata), and the entry's
\* date, category and creation timestamp; nothing but the supplied fields,
\* their derived metadata and metadata.last_modified differs from the
\* stored document.
C26_UpdateFrame ==
    [][UpdateOnExisting =>
          LET a == call'.args
              old == EntryBefore
              new == EntryAfter
          IN  /\ new.date = old.date
              /\ new.category = old.category
              /\ new.timestamp = old.timestamp
              /\ IsNone(a.text) =>
                    /\ new.content.text = old.content.text
                    /\ new.metadata.word_count = old.metadata.word_count
              /\ IsNone(a.emotion_analysis) => new.emotion_analysis = old.emotion_analysis
              /\ IsNone(a.tasks) =>
                    /\ new.content.tasks = old.content.tasks
                    /\ new.metadata.has_tasks = old.metadata.has_tasks
              /\ IsNone(a.goals) =>
                    /\ new.content.goals = old.content.goals
                    /\ new.metadata.has_goals = old.metadata.has_goals
              /\ IsNone(a.tags) => new.content.tags = old.content.tags
              /\ IsNone(a.chat_history) =>
                    /\ new.content.chat_history = old.content.chat_history
                    /\ new.metadata.has_chat_history = old.metadata.has_chat_history
              /\ IsNone(a.ai_summary) =>
                    /\ new.content.ai_summary = old.content.ai_summary
                    /\ new.metadata.has_ai_summary = old.metadata.has_ai_summary
              /\ DOMAIN new = DOMAIN old
              /\ DOMAIN new.content = DOMAIN old.content
              /\ DOMAIN new.metadata = DOMAIN old.metadata]_vars

\* update_entry gave tasks and no goals to an entry that holds goals, and
\* the goals are still there
C26_Witness ==
    /\ call.op = "update_entry"
    /\ call.existed
    /\ IsNone(call.args.goals)
    /\ ~IsNone(call.args.tasks)
    /\ ret.value # None
    /\ ret.value[1].content.goals # <<>>
    /\ ret.value[1].content.tasks = call.args.tasks[1]
    /\ ret.value[1].metadata.last_modified # ret.value[1].timestamp
    /\ GetEntry(files, Midnight(call.day)) = ret.value

-----------------------------------------------------------------------------
(* C27: what the operations leave alone in the store *)

====
